---- MODULE Spec2Model ----
(***************************************************************************)
(* A model of the Kivi browser of KikiOS (bin/browser.py): the URL         *)
(* resolver, the fetch client, the markup parser, the layout engine and    *)
(* the navigation controller (class Browser).                              *)
(*                                                                         *)
(* Strings are TLA+ strings; positions are Python's (0-based), so that     *)
(* every slice of the source reads the same here: s[a:b] is Slice(s,a,b).  *)
(***************************************************************************)
EXTENDS Integers, Sequences, FiniteSets, TLC

(***************************************************************************)
(* Python's string primitives, as browser.py uses them.                    *)
(***************************************************************************)
Max(a, b) == IF a >= b THEN a ELSE b

Min(a, b) == IF a <= b THEN a ELSE b

\* s[a:b] for 0 <= a, clipped to the string as Python clips it
Slice(s, a, b) == SubSeq(s, a + 1, Min(b, Len(s)))

\* s[a:]
From(s, a) == SubSeq(s, a + 1, Len(s))

\* s[i], a one-character string
At(s, i) == SubSeq(s, i + 1, i + 1)

startswith(s, p) == Len(s) >= Len(p) /\ SubSeq(s, 1, Len(p)) = p

endswith(s, p) == Len(s) >= Len(p) /\ SubSeq(s, Len(s) - Len(p) + 1, Len(s)) = p

\* Evaluation order.  TLC evaluates an argument when it is first used, which
\* nests the evaluation of a loop's earlier iterations inside its later ones;
\* Then(v, e) evaluates v and then e, as the source runs an iteration before
\* the next one.
Then(v, e) == IF {v} # {} THEN e ELSE e

\* F(v): a value of the source held in a local variable, and what follows
\* its assignment
Bind(v, F(_)) == F(v)

\* the least k in lo..hi with P(k), or hi + 1
First(lo, hi, P(_)) ==
    IF \E k \in lo..hi : P(k)
    THEN CHOOSE k \in lo..hi : P(k) /\ \A j \in lo..(k - 1) : ~P(j)
    ELSE hi + 1

\* the greatest k in lo..hi with P(k), or lo - 1
Last(lo, hi, P(_)) ==
    IF \E k \in lo..hi : P(k)
    THEN CHOOSE k \in lo..hi : P(k) /\ \A j \in (k + 1)..hi : ~P(j)
    ELSE lo - 1

\* s.find(sub, i): the first position >= i where sub starts, or -1
find(s, sub, i) ==
    LET hi == Len(s) - Len(sub)
        k  == First(i, hi, LAMBDA j : SubSeq(s, j + 1, j + Len(sub)) = sub)
    IN  IF k > hi THEN -1 ELSE k

\* the last position <= i where the one-character string ch stands, or -1
rfind(s, ch, i) == Last(0, i, LAMBDA j : At(s, j) = ch)

\* s.rsplit(ch, 1)[0]
rsplit_head(s, ch) ==
    LET k == rfind(s, ch, Len(s) - 1)
    IN  IF k = -1 THEN s ELSE Slice(s, 0, k)

Digits == <<"0", "1", "2", "3", "4", "5", "6", "7", "8", "9">>

IsDigit(c) == \E d \in 1..10 : Digits[d] = c

DigitVal(c) == (CHOOSE d \in 1..10 : Digits[d] = c) - 1

\* whether int(s) returns: s is a non-empty run of decimal digits (the signs,
\* blanks and underscores int() also accepts are outside the alphabet used here)
int_ok(s) == Len(s) > 0 /\ \A i \in 0..(Len(s) - 1) : IsDigit(At(s, i))

RECURSIVE int(_)
int(s) ==
    IF Len(s) = 0 THEN 0
    ELSE 10 * int(Slice(s, 0, Len(s) - 1)) + DigitVal(At(s, Len(s) - 1))

RECURSIVE str(_)
\* str(n) for n >= 0
str(n) ==
    IF n < 10 THEN Digits[n + 1]
    ELSE str(n \div 10) \o Digits[(n % 10) + 1]

(***************************************************************************)
(* URL parser.  A raised ValueError is the result with err = TRUE.  None   *)
(* (host and port of a file URL) is NoHost / NoPort.                       *)
(***************************************************************************)
NoHost == ""

NoPort == -1

UrlError == [err |-> TRUE, scheme |-> "", host |-> NoHost, port |-> NoPort, path |-> ""]

Url(scheme, host, port, path) ==
    [err |-> FALSE, scheme |-> scheme, host |-> host, port |-> port, path |-> path]

\* parse_url from the point where scheme, default port and the rest are known
parse_authority(scheme, default_port, rest) ==
    Bind(find(rest, "/", 0), LAMBDA slash_pos :
    Bind(IF slash_pos = -1 THEN rest ELSE Slice(rest, 0, slash_pos), LAMBDA host_port :
    Bind(IF slash_pos = -1 THEN "/" ELSE From(rest, slash_pos), LAMBDA path :
    Bind(find(host_port, ":", 0), LAMBDA colon_pos :
        IF colon_pos = -1
        THEN Url(scheme, host_port, default_port, path)
        ELSE IF int_ok(From(host_port, colon_pos + 1))
             THEN Url(scheme, Slice(host_port, 0, colon_pos),
                      int(From(host_port, colon_pos + 1)), path)
             ELSE UrlError))))

parse_url(url) ==
    IF startswith(url, "file://") THEN Url("file", NoHost, NoPort, From(url, 7))
    ELSE IF startswith(url, "https://") THEN parse_authority("https", 443, From(url, 8))
    ELSE IF startswith(url, "http://") THEN parse_authority("http", 80, From(url, 7))
    ELSE parse_authority("http", 80, url)

HasSchemePrefix(u) ==
    \/ startswith(u, "http://")
    \/ startswith(u, "https://")
    \/ startswith(u, "file://")
    \/ startswith(u, "about:")

\* resolve_url: [err, url]
resolve_url(base_url, rel_url) ==
    IF HasSchemePrefix(rel_url) THEN [err |-> FALSE, url |-> rel_url]
    ELSE
      Bind(parse_url(base_url), LAMBDA b :
      Bind(IF startswith(rel_url, "/") THEN rel_url
           ELSE rsplit_head(b.path, "/") \o "/" \o rel_url, LAMBDA new_path :
          IF b.err THEN [err |-> TRUE, url |-> ""]
          ELSE IF b.scheme = "file" THEN [err |-> FALSE, url |-> "file://" \o new_path]
          ELSE [err |-> FALSE,
                url |-> b.scheme \o "://" \o b.host
                        \o (IF \/ (b.scheme = "http" /\ b.port # 80)
                               \/ (b.scheme = "https" /\ b.port # 443)
                            THEN ":" \o str(b.port) ELSE "")
                        \o new_path]))

(***************************************************************************)
(* More string primitives: split, strip, lower.                            *)
(***************************************************************************)
\* the characters str.strip() and str.split() treat as white space
IsSpace(c) == c \in {" ", "\t", "\n", "\r", "\f"}

lstrip(s) == From(s, First(0, Len(s) - 1, LAMBDA j : ~IsSpace(At(s, j))))

rstrip(s) == Slice(s, 0, Last(0, Len(s) - 1, LAMBDA j : ~IsSpace(At(s, j))) + 1)

strip(s) == rstrip(lstrip(s))

\* s.rstrip(ch)
rstrip_char(s, ch) == Slice(s, 0, Last(0, Len(s) - 1, LAMBDA j : At(s, j) # ch) + 1)

RECURSIVE split(_, _)
\* s.split(sep) for a non-empty separator: always at least one piece
split(s, sep) ==
    Bind(find(s, sep, 0), LAMBDA k :
        IF k = -1 THEN <<s>>
        ELSE <<Slice(s, 0, k)>> \o split(From(s, k + Len(sep)), sep))

RECURSIVE split_ws(_)
\* s.split(): the maximal runs of non-space characters
split_ws(s) ==
    Bind(lstrip(s), LAMBDA t :
    Bind(First(0, Len(t) - 1, LAMBDA j : IsSpace(At(t, j))), LAMBDA word_end :
        IF Len(t) = 0 THEN <<>>
        ELSE <<Slice(t, 0, word_end)>> \o split_ws(From(t, word_end))))

RECURSIVE join_range(_, _, _, _)
\* sep.join(parts[lo..hi]), lo <= hi, by halves
join_range(sep, parts, lo, hi) ==
    IF lo = hi THEN parts[lo]
    ELSE LET mid == (lo + hi) \div 2
         IN  join_range(sep, parts, lo, mid) \o sep \o join_range(sep, parts, mid + 1, hi)

\* sep.join(parts)
join(sep, parts) == IF Len(parts) = 0 THEN "" ELSE join_range(sep, parts, 1, Len(parts))

UpperCase == "ABCDEFGHIJKLMNOPQRSTUVWXYZ"

LowerCase == "abcdefghijklmnopqrstuvwxyz"

lower_char(c) ==
    IF \E i \in 0..25 : At(UpperCase, i) = c
    THEN At(LowerCase, CHOOSE i \in 0..25 : At(UpperCase, i) = c)
    ELSE c

RECURSIVE lower(_)
\* s.lower(), by halves
lower(s) ==
    IF Len(s) = 0 THEN ""
    ELSE IF Len(s) = 1 THEN lower_char(s)
    ELSE LET mid == Len(s) \div 2 IN lower(Slice(s, 0, mid)) \o lower(From(s, mid))

(***************************************************************************)
(* HTTP response parser.  A fetch result is [raised, status, body]; raised *)
(* stands for the ValueError of int() leaving the function.                *)
(***************************************************************************)
Result(status, body) == [raised |-> FALSE, status |-> status, body |-> body]

Raised == [raised |-> TRUE, status |-> 0, body |-> ""]

IsRedirect(status) == status \in {301, 302, 307, 308}

RECURSIVE location_of(_)
\* the trimmed value of the first header line starting with location:, or
\* <<>> when the loop of lines 233-235 finds none
location_of(lines) ==
    IF Len(lines) = 0 THEN <<>>
    ELSE IF startswith(lower(lines[1]), "location:") THEN <<strip(From(lines[1], 9))>>
    ELSE location_of(Tail(lines))

parse_http_response(data) ==
    Bind(find(data, "\r\n\r\n", 0), LAMBDA sep :
      IF sep = -1 THEN Result(0, "Invalid HTTP response")
      ELSE
        Bind(split(Slice(data, 0, sep), "\r\n"), LAMBDA lines :
        Bind(split(lines[1], " "), LAMBDA parts :
          IF Len(parts) >= 2 /\ ~int_ok(parts[2]) THEN Raised
          ELSE
            Bind(IF Len(parts) >= 2 THEN int(parts[2]) ELSE 0, LAMBDA status :
            Bind(location_of(Tail(lines)), LAMBDA loc :
              IF IsRedirect(status) /\ loc # <<>> THEN Result(status, loc[1])
              ELSE Result(status, From(data, sep + 4)))))))

(***************************************************************************)
(* Markup parser: entities, attributes, the element tree.                  *)
(***************************************************************************)
\* HTML_ENTITIES, as name/value pairs
HTML_ENTITIES ==
    << <<"amp", "&">>, <<"lt", "<">>, <<"gt", ">">>, <<"quot", "\"">>, <<"apos", "'">>,
       <<"nbsp", " ">>, <<"copy", "(c)">>, <<"reg", "(R)">>, <<"trade", "(TM)">>,
       <<"mdash", "-">>, <<"ndash", "-">>, <<"bull", "*">>, <<"hellip", "...">>,
       <<"laquo", "<<">>, <<"raquo", ">>">>, <<"ldquo", "\"">>, <<"rdquo", "\"">>,
       <<"lsquo", "'">>, <<"rsquo", "'">>, <<"pound", "GBP">>, <<"euro", "EUR">>,
       <<"yen", "JPY">>, <<"cent", "c">>, <<"times", "x">>, <<"divide", "/">>,
       <<"plusmn", "+/-">>, <<"deg", "deg">>, <<"larr", "<-">>, <<"rarr", "->">>,
       <<"uarr", "^">>, <<"darr", "v">>, <<"middot", ".">>, <<"sect", "S">>,
       <<"para", "P">>, <<"dagger", "+">>, <<"permil", "o/oo">>, <<"prime", "'">>,
       <<"infin", "inf">>, <<"ne", "!=">>, <<"le", "<=">>, <<"ge", ">=">>,
       <<"asymp", "~=">>, <<"equiv", "===">>, <<"alpha", "a">>, <<"beta", "b">>,
       <<"gamma", "g">>, <<"delta", "d">>, <<"pi", "pi">>, <<"sigma", "s">>,
       <<"omega", "w">> >>

InEntities(name) == \E k \in 1..Len(HTML_ENTITIES) : HTML_ENTITIES[k][1] = name

EntityValue(name) ==
    HTML_ENTITIES[CHOOSE k \in 1..Len(HTML_ENTITIES) : HTML_ENTITIES[k][1] = name][2]

\* the characters of code points 32..95 and 97..126, in order (a backquote,
\* 96, cannot stand in a string here)
AsciiLow == " !\"#$%&'()*+,-./0123456789:;<=>?@ABCDEFGHIJKLMNOPQRSTUVWXYZ[\\]^_"

AsciiHigh == "abcdefghijklmnopqrstuvwxyz{|}~"

\* the largest code point chr() accepts
MaxCodePoint == 1114111

\* chr(n) for a code point outside those: one character, written here as a
\* character no input of the model holds
OtherChar == "\f"

chr_ok(n) == 0 <= n /\ n <= MaxCodePoint

chr(n) ==
    IF 32 <= n /\ n <= 95 THEN At(AsciiLow, n - 32)
    ELSE IF 97 <= n /\ n <= 126 THEN At(AsciiHigh, n - 97)
    ELSE OtherChar

HexDigits == "0123456789abcdef"

IsHexDigit(c) == \E d \in 0..15 : At(HexDigits, d) = lower_char(c)

HexVal(c) == CHOOSE d \in 0..15 : At(HexDigits, d) = lower_char(c)

\* whether int(s, 16) returns (the 0x prefix, signs, blanks and underscores it
\* also accepts are outside the alphabet used here)
int16_ok(s) == Len(s) > 0 /\ \A i \in 0..(Len(s) - 1) : IsHexDigit(At(s, i))

RECURSIVE int16(_)
int16(s) ==
    IF Len(s) = 0 THEN 0
    ELSE 16 * int16(Slice(s, 0, Len(s) - 1)) + HexVal(At(s, Len(s) - 1))

\* what one reference text[i:end+1] with body entity decodes to (lines 255-268)
decode_one(entity, literal) ==
    IF startswith(entity, "#x")
    THEN IF int16_ok(From(entity, 2))
         THEN Bind(int16(From(entity, 2)), LAMBDA n : IF chr_ok(n) THEN chr(n) ELSE literal)
         ELSE literal
    ELSE IF startswith(entity, "#")
    THEN IF int_ok(From(entity, 1))
         THEN Bind(int(From(entity, 1)), LAMBDA n : IF chr_ok(n) THEN chr(n) ELSE literal)
         ELSE literal
    ELSE IF InEntities(entity) THEN EntityValue(entity)
    ELSE literal

RECURSIVE decode_from(_, _)
\* the loop of decode_entities from position i: what it appends to result.
\* The characters before the next & are copied one by one (lines 271-272),
\* here in one piece.
decode_from(text, i) ==
    IF i >= Len(text) THEN ""
    ELSE
      Bind(find(text, "&", i), LAMBDA amp :
        IF amp = -1 THEN From(text, i)
        ELSE IF amp > i THEN Slice(text, i, amp) \o decode_from(text, amp)
        ELSE
          Bind(find(text, ";", amp), LAMBDA end :
            IF end # -1 /\ end - i < 12
            THEN decode_one(Slice(text, i + 1, end), Slice(text, i, end + 1))
                 \o decode_from(text, end + 1)
            ELSE "&" \o decode_from(text, i + 1)))

decode_entities(text) == decode_from(text, 0)

\* Element(tag, attrs): attrs is a dict, kept as the sequence of its
\* <<name, value>> items in insertion order
Element(tag, attrs) ==
    [tag |-> lower(tag), attrs |-> attrs, children |-> <<>>, text |-> ""]

HasAttr(attrs, name) == \E k \in 1..Len(attrs) : attrs[k][1] = name

\* attrs.get(name, default)
attr_get(attrs, name, default) ==
    IF HasAttr(attrs, name)
    THEN attrs[CHOOSE k \in 1..Len(attrs) : attrs[k][1] = name][2]
    ELSE default

\* attrs[name] = value
attr_set(attrs, name, value) ==
    IF HasAttr(attrs, name)
    THEN [k \in 1..Len(attrs) |-> IF attrs[k][1] = name THEN <<name, value>> ELSE attrs[k]]
    ELSE Append(attrs, <<name, value>>)

\* the position after the run of characters of set cs starting at i
skip_while(s, i, cs) == First(i, Len(s) - 1, LAMBDA j : At(s, j) \notin cs)

\* the position of the first character of set cs at or after i, or len(s)
skip_until(s, i, cs) == First(i, Len(s) - 1, LAMBDA j : At(s, j) \in cs)

RECURSIVE parse_attrs_from(_, _, _)
\* the loop of parse_attrs from position i with the dict attrs
parse_attrs_from(attr_str, i, attrs) ==
    IF i >= Len(attr_str) THEN attrs
    ELSE
      Bind(skip_while(attr_str, i, {" ", "\t", "\n"}), LAMBDA i1 :
        IF i1 >= Len(attr_str) THEN attrs
        ELSE
          Bind(skip_until(attr_str, i1, {"=", " ", "\t", "\n"}), LAMBDA i2 :
          Bind(lower(Slice(attr_str, i1, i2)), LAMBDA name :
          Bind(skip_while(attr_str, i2, {" ", "\t", "\n", "="}), LAMBDA i3 :
            IF i3 < Len(attr_str) /\ At(attr_str, i3) \in {"\"", "'"}
            THEN Bind(skip_until(attr_str, i3 + 1, {At(attr_str, i3)}), LAMBDA q_end :
                   parse_attrs_from(attr_str, q_end + 1,
                       IF name # ""
                       THEN attr_set(attrs, name, Slice(attr_str, i3 + 1, q_end))
                       ELSE attrs))
            ELSE Bind(skip_until(attr_str, i3, {" ", "\t", "\n", ">"}), LAMBDA u_end :
                   parse_attrs_from(attr_str, u_end,
                       IF name # ""
                       THEN attr_set(attrs, name, Slice(attr_str, i3, u_end))
                       ELSE attrs))))))

parse_attrs(attr_str) == parse_attrs_from(attr_str, 0, <<>>)

void_tags == {"br", "hr", "img", "input", "meta", "link"}

\* The open-element stack, bottom first.  An element of the source is
\* appended to its parent when it is created and filled while it is open;
\* here an open element is held on the stack and joins its parent's children
\* when it leaves the stack, which gives the same tree: while an element is
\* open it is its parent's last child.
attach(parent, child) == [parent EXCEPT !.children = Append(@, child)]

\* stack.pop()
pop(stack) ==
    LET n == Len(stack)
    IN  SubSeq(stack, 1, n - 2) \o <<attach(stack[n - 1], stack[n])>>

RECURSIVE pop_until(_, _)
\* while len(stack) > 1 and stack[-1].tag != tag_name: stack.pop()
pop_until(stack, tag_name) ==
    IF Len(stack) > 1 /\ stack[Len(stack)].tag # tag_name
    THEN pop_until(pop(stack), tag_name)
    ELSE stack

\* lines 338-345: a closing tag
close_tag(stack, tag_content) ==
    Bind(pop_until(stack, lower(strip(From(tag_content, 1)))), LAMBDA s1 :
        IF Len(s1) > 1 THEN pop(s1) ELSE s1)

\* every element is pushed, whatever its tag and its ending
open_tag_pushing(stack, tag_content) ==
    Bind(find(tag_content, " ", 0), LAMBDA space :
        Append(stack,
               Element(IF space = -1 THEN rstrip_char(tag_content, "/")
                       ELSE Slice(tag_content, 0, space),
                       IF space = -1 THEN <<>> ELSE parse_attrs(From(tag_content, space)))))

\* lines 347-359: an opening tag
open_tag(stack, tag_content) ==
    Bind(find(tag_content, " ", 0), LAMBDA space :
    Bind(IF space = -1 THEN lower(rstrip_char(tag_content, "/"))
         ELSE lower(Slice(tag_content, 0, space)), LAMBDA tag_name :
    Bind(Element(tag_name,
                 IF space = -1 THEN <<>> ELSE parse_attrs(From(tag_content, space))),
         LAMBDA elem :
        IF tag_name \notin void_tags /\ ~endswith(tag_content, "/")
        THEN Append(stack, elem)
        ELSE [stack EXCEPT ![Len(stack)] = attach(@, elem)])))

\* lines 367-373: a text run
add_text(stack, raw) ==
    IF strip(raw) = "" THEN stack
    ELSE [stack EXCEPT ![Len(stack)].text =
              (IF @ # "" THEN @ \o " " ELSE @)
              \o join(" ", split_ws(decode_entities(raw)))]

\* the state of the loop of parse_html: the position i and the stack
Loop(i, stack) == [i |-> i, stack |-> stack]

\* one iteration of the while loop of parse_html (lines 327-375)
parse_step(html, st) ==
    IF At(html, st.i) = "<"
    THEN Bind(find(html, ">", st.i), LAMBDA end :
           IF end = -1 THEN Loop(Len(html), st.stack)
           ELSE
             Bind(strip(Slice(html, st.i + 1, end)), LAMBDA tag_content :
               IF startswith(tag_content, "!") THEN Loop(end + 1, st.stack)
               ELSE IF startswith(tag_content, "/")
               THEN Loop(end + 1, close_tag(st.stack, tag_content))
               ELSE Loop(end + 1, open_tag(st.stack, tag_content))))
    ELSE Bind(find(html, "<", st.i), LAMBDA lt :
         Bind(IF lt = -1 THEN Len(html) ELSE lt, LAMBDA next_tag :
            Loop(next_tag, add_text(st.stack, Slice(html, st.i, next_tag)))))

RECURSIVE parse_loop(_, _, _)
\* the while loop of parse_html from state st, for at most n iterations, the
\* first half of them before the second
parse_loop(html, st, n) ==
    IF st.i >= Len(html) \/ n = 0 THEN st
    ELSE IF n = 1 THEN parse_step(html, st)
    ELSE Bind(parse_loop(html, st, n \div 2), LAMBDA mid :
            Then(mid, parse_loop(html, mid, n - n \div 2)))

\* only the root is returned, without the elements still open
close_all_dropping(stack) == stack[1]

RECURSIVE close_all(_)
\* the tree under the root once every element still open is left as it is
close_all(stack) == IF Len(stack) = 1 THEN stack[1] ELSE close_all(pop(stack))

\* an iteration moves i forward, so the loop ends within len(html) of them
parse_html(html) ==
    close_all(parse_loop(html, Loop(0, <<Element("root", <<>>)>>), Len(html)).stack)

(***************************************************************************)
(* The platform's font service (module vibe): the advance of a character,  *)
(* the kerning of a pair and the metrics of a size.  A fixed-pitch font:   *)
(* every character advances half the size, no pair is kerned, a line is    *)
(* the size and a quarter high.                                            *)
(***************************************************************************)
ttf_get_advance(cp, font_size) == font_size \div 2

ttf_get_kerning(prev_cp, cp, font_size) == 0

\* <<ascent, descent, line_gap>>
ttf_get_metrics(font_size) == <<font_size, -(font_size \div 4), 0>>

TTF_BOLD == {"bold"}

TTF_ITALIC == {"italic"}

(***************************************************************************)
(* Layout engine.                                                          *)
(***************************************************************************)
MARGIN == 10

SCROLLBAR_W == 12

ADDRESS_BAR_H == 24

WHITE == "WHITE"

BLACK == "BLACK"

GRAY == "GRAY"

LINK_COLOR == "LINK_COLOR"

\* FONT_SIZES
InFontSizes(tag) == tag \in {"h1", "h2", "h3", "h4", "h5", "h6", "default"}

FONT_SIZES(tag) ==
    CASE tag = "h1" -> 28 [] tag = "h2" -> 24 [] tag = "h3" -> 20
      [] tag = "h4" -> 18 [] tag = "h5" -> 16 [] tag = "h6" -> 14
      [] tag = "default" -> 16

\* None, and a string h, as an optional value
None == <<>>

Some(h) == <<h>>

\* Python's truth of an optional string: neither None nor empty
Truthy(href) == href # None /\ href[1] # ""

RECURSIVE measure_range(_, _, _, _)
\* the advances of characters lo..hi of text and the kerning of each with the
\* character before it, by halves
measure_range(text, font_size, lo, hi) ==
    IF lo > hi THEN 0
    ELSE IF lo = hi
    THEN ttf_get_advance(At(text, lo), font_size)
         + (IF lo >= 1 THEN ttf_get_kerning(At(text, lo - 1), At(text, lo), font_size) ELSE 0)
    ELSE LET mid == (lo + hi) \div 2
         IN  measure_range(text, font_size, lo, mid) + measure_range(text, font_size, mid + 1, hi)

measure_text(text, font_size) == measure_range(text, font_size, 0, Len(text) - 1)

line_height_of(font_size) ==
    LET m == ttf_get_metrics(font_size) IN m[1] - m[2] + m[3]

\* TextBlock(x, y, text, font_size, style, fg, href) with w and h set
TextBlock(x, y, text, font_size, style, fg, href, w, h) ==
    [x |-> x, y |-> y, text |-> text, font_size |-> font_size, style |-> style,
     fg |-> fg, href |-> href, w |-> w, h |-> h]

\* a link region (x, y, w, h, href)
LinkRegion(x, y, w, h, href) == <<x, y, w, h, href>>

\* the lists a layout call appends to, and the y it returns
Lay(blocks, links, y) == [blocks |-> blocks, links |-> links, y |-> y]

RECURSIVE get_all_text(_)
get_all_text(elem) ==
    LET RECURSIVE Rest(_)
        Rest(k) == IF k > Len(elem.children) THEN ""
                   ELSE get_all_text(elem.children[k]) \o Rest(k + 1)
    IN  elem.text \o Rest(1)

RECURSIVE find_element(_, _)
\* None or Some(element)
find_element(root, tag) ==
    LET RECURSIVE In(_)
        In(k) == IF k > Len(root.children) THEN None
                 ELSE Bind(find_element(root.children[k], tag), LAMBDA found :
                          IF found # None THEN found ELSE In(k + 1))
    IN  IF root.tag = tag THEN Some(root) ELSE In(1)

\* lines 600-609 and 614-621: one line of words becomes a block
emit_line(L, line_words, indent, font_size, style, fg, href) ==
    Bind(join(" ", line_words), LAMBDA line_text :
    Bind(MARGIN + indent, LAMBDA x :
    Bind(measure_text(line_text, font_size), LAMBDA w :
    Bind(line_height_of(font_size), LAMBDA h :
        Lay(Append(L.blocks, TextBlock(x, L.y, line_text, font_size, style, fg, href, w, h)),
            IF Truthy(href) THEN Append(L.links, LinkRegion(x, L.y, w, h, href[1]))
            ELSE L.links,
            L.y + h)))))

RECURSIVE layout_text_loop(_, _, _, _, _, _, _, _, _)
\* the loop of layout_text over words[k..], then the last line
layout_text_loop(words, k, line_words, L, indent, font_size, style, fg_href, W) ==
    IF k > Len(words)
    THEN IF line_words # <<>>
         THEN emit_line(L, line_words, indent, font_size, style, fg_href[1], fg_href[2])
         ELSE L
    ELSE Bind(words[k], LAMBDA word :
         Bind(IF line_words # <<>>
              THEN measure_text(join(" ", Append(line_words, word)), font_size)
              ELSE measure_text(word, font_size), LAMBDA test_w :
             IF MARGIN + indent + test_w > MARGIN + W /\ line_words # <<>>
             THEN Bind(emit_line(L, line_words, indent, font_size, style,
                                 fg_href[1], fg_href[2]), LAMBDA emitted :
                     Then(emitted,
                          layout_text_loop(words, k + 1, <<word>>, emitted,
                                           indent, font_size, style, fg_href, W)))
             ELSE layout_text_loop(words, k + 1, Append(line_words, word), L,
                      indent, font_size, style, fg_href, W)))

layout_text(text, L, indent, font_size, style, fg, href, W) ==
    IF text = "" THEN L
    ELSE layout_text_loop(split_ws(text), 1, <<>>, L, indent, font_size, style, <<fg, href>>, W)

\* the state of layout_inline: the lists, and the nonlocal x and y
Inl(blocks, links, x, y) == [blocks |-> blocks, links |-> links, x |-> x, y |-> y]

\* the word is put where x stands, whatever room is left
emit_word_never_wrapping(I, word, indent, font_size, cur_style, cur_href, cur_fg, W) ==
    IF word = "" THEN I
    ELSE Inl(Append(I.blocks,
                    TextBlock(I.x, I.y, word, font_size, cur_style, cur_fg, cur_href,
                              measure_text(word, font_size), line_height_of(font_size))),
             I.links,
             I.x + measure_text(word, font_size) + measure_text(" ", font_size),
             I.y)

\* layout_inline.emit_word
emit_word(I, word, indent, font_size, cur_style, cur_href, cur_fg, W) ==
    IF word = "" THEN I
    ELSE
      Bind(measure_text(word, font_size), LAMBDA word_w :
      Bind(line_height_of(font_size), LAMBDA lh :
      Bind(I.x + word_w > MARGIN + W /\ I.x > MARGIN + indent, LAMBDA wrap :
      Bind(IF wrap THEN MARGIN + indent ELSE I.x, LAMBDA x :
      Bind(IF wrap THEN I.y + lh ELSE I.y, LAMBDA y :
             Inl(Append(I.blocks,
                        TextBlock(x, y, word, font_size, cur_style, cur_fg, cur_href, word_w, lh)),
                 IF Truthy(cur_href)
                 THEN Append(I.links, LinkRegion(x, y, word_w, lh, cur_href[1]))
                 ELSE I.links,
                 x + word_w + measure_text(" ", font_size),
                 y))))))

RECURSIVE process_words(_, _, _, _, _, _, _, _, _)
\* for word in words[k..]: emit_word(word)
process_words(words, k, I, indent, font_size, cur_style, cur_href, cur_fg, W) ==
    IF k > Len(words) THEN I
    ELSE Bind(emit_word(I, words[k], indent, font_size, cur_style, cur_href, cur_fg, W),
              LAMBDA I1 :
                Then(I1, process_words(words, k + 1, I1, indent, font_size, cur_style,
                                       cur_href, cur_fg, W)))

RECURSIVE process(_, _, _, _, _, _, _)
RECURSIVE process_children(_, _, _, _, _, _, _, _)

\* for child in children[k..]: process(child)
process_children(children, k, I, cur_style, cur_href, indent, font_size, W) ==
    IF k > Len(children) THEN I
    ELSE Bind(process(children[k], I, cur_style, cur_href, indent, font_size, W),
              LAMBDA I1 :
                Then(I1, process_children(children, k + 1, I1, cur_style, cur_href, indent,
                                          font_size, W)))

\* layout_inline.process
process(el, I, cur_style, cur_href, indent, font_size, W) ==
    Bind(IF el.tag \in {"b", "strong"} THEN cur_style \cup TTF_BOLD
         ELSE IF el.tag \in {"i", "em"} THEN cur_style \cup TTF_ITALIC
         ELSE cur_style, LAMBDA s :
    Bind(IF el.tag = "a" THEN Some(attr_get(el.attrs, "href", "")) ELSE cur_href, LAMBDA h :
    Bind(IF el.tag = "a" \/ Truthy(cur_href) THEN LINK_COLOR ELSE BLACK, LAMBDA fg :
    Bind(process_words(split_ws(el.text), 1, I, indent, font_size, s, h, fg, W), LAMBDA I1 :
        Then(I1, process_children(el.children, 1, I1, s, h, indent, font_size, W))))))

layout_inline(elem, L, indent, font_size, style, href, W) ==
    Bind(process(elem, Inl(L.blocks, L.links, MARGIN + indent, L.y),
                 style, href, indent, font_size, W), LAMBDA I :
        Lay(I.blocks, I.links, I.y + line_height_of(font_size)))

\* text[:n], n of either sign
prefix(text, n) == IF n >= 0 THEN Slice(text, 0, n) ELSE Slice(text, 0, Max(0, Len(text) + n))

\* the cells of a row: <<tag, text>> of its td and th children
cells_of(row) ==
    LET RECURSIVE From_(_)
        From_(k) == IF k > Len(row.children) THEN <<>>
                    ELSE (IF row.children[k].tag \in {"td", "th"}
                          THEN <<<<row.children[k].tag, get_all_text(row.children[k])>>>>
                          ELSE <<>>) \o From_(k + 1)
    IN  From_(1)

\* the rows of tr children of elem that have cells
rows_in(elem) ==
    LET RECURSIVE From_(_)
        From_(k) == IF k > Len(elem.children) THEN <<>>
                    ELSE (IF elem.children[k].tag = "tr"
                          THEN Bind(cells_of(elem.children[k]), LAMBDA cells :
                                       IF cells # <<>> THEN <<cells>> ELSE <<>>)
                          ELSE <<>>) \o From_(k + 1)
    IN  From_(1)

\* lines 627-644
table_rows(table_elem) ==
    LET RECURSIVE From_(_)
        From_(k) == IF k > Len(table_elem.children) THEN <<>>
                    ELSE Bind(table_elem.children[k], LAMBDA child :
                              IF child.tag \in {"thead", "tbody"} THEN rows_in(child)
                              ELSE IF child.tag = "tr"
                              THEN Bind(cells_of(child), LAMBDA cells :
                                           IF cells # <<>> THEN <<cells>> ELSE <<>>)
                              ELSE <<>>) \o From_(k + 1)
    IN  From_(1)

MaxLen(rows) == CHOOSE n \in {Len(rows[r]) : r \in 1..Len(rows)} :
                    \A r \in 1..Len(rows) : Len(rows[r]) <= n

RECURSIVE table_cells(_, _, _, _, _, _, _, _, _)
\* lines 660-676: the blocks of cells c.. of a row at y
table_cells(row, c, y, blocks, indent, font_size, style, col_width, row_height) ==
    IF c > Len(row) THEN blocks
    ELSE
      Bind(MARGIN + indent + (c - 1) * col_width, LAMBDA cell_x :
      Bind(row[c][2], LAMBDA text :
      Bind(col_width \div 8, LAMBDA max_chars :
      Bind(blocks \o
           << TextBlock(cell_x, y, "__CELL__", 0, {}, BLACK, None, col_width, row_height),
              TextBlock(cell_x + 4, y + 4,
                        IF Len(text) > max_chars THEN prefix(text, max_chars) ELSE text,
                        font_size,
                        IF row[c][1] = "th" THEN style \cup TTF_BOLD ELSE style,
                        BLACK, None, col_width - 8, row_height - 8) >>, LAMBDA blocks1 :
          Then(blocks1, table_cells(row, c + 1, y, blocks1, indent, font_size, style,
                                    col_width, row_height))))))

RECURSIVE table_lines(_, _, _, _, _, _, _, _, _)
\* lines 657-678: rows r.. from y
table_lines(rows, r, y, blocks, L, indent, font_size, style, col_width) ==
    IF r > Len(rows) THEN Lay(blocks, L.links, y + 4)
    ELSE
      Bind(line_height_of(font_size) + 8, LAMBDA row_height :
      Bind(table_cells(rows[r], 1, y, blocks, indent, font_size, style, col_width, row_height),
           LAMBDA blocks1 :
          Then(blocks1, table_lines(rows, r + 1, y + row_height, blocks1, L, indent,
                                    font_size, style, col_width))))

layout_table(table_elem, L, indent, font_size, style, W) ==
    Bind(table_rows(table_elem), LAMBDA rows :
        IF rows = <<>> THEN L
        ELSE table_lines(rows, 1, L.y + 4, L.blocks, L, indent, font_size, style,
                         (W - indent - MARGIN) \div MaxLen(rows)))

RECURSIVE layout_element(_, _, _, _, _, _, _)
RECURSIVE layout_children(_, _, _, _, _, _, _, _)
RECURSIVE layout_items(_, _, _, _, _, _, _, _)

\* for child in children[k..]: y = layout_element(child, ..., href)
layout_children(children, k, L, indent, font_size, style, href, W) ==
    IF k > Len(children) THEN L
    ELSE Bind(layout_element(children[k], L, indent, font_size, style, href, W), LAMBDA L1 :
            Then(L1, layout_children(children, k + 1, L1, indent, font_size, style, href, W)))

\* lines 466-484: the li children of a list from child k, list_num the
\* ordinal of the next item
layout_items(elem, k, list_num, L, indent, font_size, style, W) ==
    IF k > Len(elem.children) THEN L
    ELSE IF elem.children[k].tag # "li"
    THEN layout_items(elem, k + 1, list_num, L, indent, font_size, style, W)
    ELSE
      Bind(elem.children[k], LAMBDA child :
      Bind(IF elem.tag = "ul" THEN "* " ELSE str(list_num) \o ".", LAMBDA bullet :
      Bind(line_height_of(font_size), LAMBDA lh :
      Bind(TextBlock(MARGIN + indent + 20, L.y, bullet, font_size, style, BLACK,
                     None, measure_text(bullet, font_size), lh), LAMBDA block :
      Bind(layout_children(child.children, 1, Lay(Append(L.blocks, block), L.links, L.y),
                           indent + 40, font_size, style, None, W), LAMBDA L2 :
      Bind(IF child.text # ""
           THEN layout_text(child.text, L2, indent + 40, font_size, style, BLACK, None, W)
           ELSE L2, LAMBDA L3 :
      Bind(IF L3.y = block.y THEN Lay(L3.blocks, L3.links, L3.y + lh) ELSE L3, LAMBDA L4 :
          Then(L4, layout_items(elem, k + 1, list_num + 1, L4, indent, font_size,
                                style, W)))))))))

\* lines 503-505: the non-empty lines of a preformatted text
RECURSIVE layout_lines(_, _, _, _, _)
layout_lines(lines, k, L, indent, W) ==
    IF k > Len(lines) THEN L
    ELSE Bind(IF lines[k] # ""
              THEN layout_text(lines[k], L, indent, 14, {}, BLACK, None, W)
              ELSE L, LAMBDA L1 :
            Then(L1, layout_lines(lines, k + 1, L1, indent, W)))

AddY(L, d) == Lay(L.blocks, L.links, L.y + d)

layout_element(elem, L, indent, font_size_in, style_in, href_in, W) ==
    Bind(elem.tag, LAMBDA tag :
    Bind(IF InFontSizes(tag) THEN FONT_SIZES(tag) ELSE font_size_in, LAMBDA font_size :
    Bind(IF tag \in {"b", "strong"} THEN style_in \cup TTF_BOLD
         ELSE IF tag \in {"i", "em"} THEN style_in \cup TTF_ITALIC
         ELSE style_in, LAMBDA style :
    Bind(IF tag = "a" THEN Some(attr_get(elem.attrs, "href", "")) ELSE href_in, LAMBDA href :
    Bind(line_height_of(font_size), LAMBDA line_height :
        IF tag \in {"h1", "h2", "h3", "h4", "h5", "h6"}
        THEN AddY(layout_text(get_all_text(elem), AddY(L, line_height \div 2), indent,
                              font_size, style \cup TTF_BOLD, BLACK, href, W),
                  line_height \div 4)
        ELSE IF tag = "p"
        THEN AddY(layout_inline(elem, AddY(L, line_height \div 4), indent, font_size,
                                style, href, W),
                  line_height \div 4)
        ELSE IF tag = "br" THEN AddY(L, line_height)
        ELSE IF tag = "hr"
        THEN Lay(Append(L.blocks,
                        TextBlock(MARGIN + indent, L.y + 4, "__HR__", 0, {}, GRAY, None,
                                  W - indent, 1)),
                 L.links, L.y + 4 + 8)
        ELSE IF tag \in {"ul", "ol"}
        THEN AddY(layout_items(elem, 1, 1, AddY(L, 4), indent, font_size, style, W), 4)
        ELSE IF tag = "blockquote"
        THEN Bind(TextBlock(MARGIN + indent, L.y + 8, "__BQ_START__", 0, {}, GRAY,
                            None, W - indent, 0), LAMBDA marker :
             Bind(layout_text(get_all_text(elem),
                              Lay(Append(L.blocks, marker), L.links, L.y + 8),
                              indent + 20, font_size, style \cup TTF_ITALIC, BLACK, href, W),
                  LAMBDA L1 :
                 Lay([L1.blocks EXCEPT ![Len(L.blocks) + 1].h = L1.y - marker.y + 8],
                     L1.links, L1.y + 8)))
        ELSE IF tag = "pre" \/ tag = "code"
        THEN AddY(layout_lines(split(get_all_text(elem), "\n"), 1, AddY(L, 4), indent, W), 4)
        ELSE IF tag = "table"
        THEN layout_table(elem, L, indent, font_size, style, W)
        ELSE layout_children(elem.children, 1,
                 IF elem.text # ""
                 THEN layout_text(elem.text, L, indent, font_size, style,
                                  IF Truthy(href) THEN LINK_COLOR ELSE BLACK, href, W)
                 ELSE L,
                 indent, font_size, style, href, W))))))

\* the cursor alone, whatever the blocks
max_bottom_cursor_only(blocks, y) == y

\* max_bottom of lines 779-783
max_bottom(blocks, y) ==
    LET RECURSIVE Upto(_, _)
        Upto(k, m) == IF k > Len(blocks) THEN m
                      ELSE Upto(k + 1, Max(m, blocks[k].y + blocks[k].h))
    IN  Upto(1, y)

\* Browser.layout_document at content width W: [blocks, links, content_height]
layout_document(root, W) ==
    Bind(find_element(root, "body"), LAMBDA found :
    Bind(IF found # None THEN found[1] ELSE root, LAMBDA body :
    Bind(layout_element(body, Lay(<<>>, <<>>, MARGIN), 0, 16, {}, None, W), LAMBDA L :
    Bind(max_bottom(L.blocks, L.y) + MARGIN, LAMBDA content_height :
        [blocks |-> L.blocks, links |-> L.links, content_height |-> content_height * 2]))))

(***************************************************************************)
(* Fetch client.  What the platform does during one fetch is net:          *)
(*   dns_ok, connect_ok  whether dns_resolve and the connect succeed        *)
(*   response            the bytes the receive loop has accumulated when    *)
(*                       it ends (the loop itself is recv_chunk below)      *)
(*   file_open, file_read, file_data  what open and read give for a file    *)
(***************************************************************************)
\* WELCOME_PAGE, cut to its title, its heading and one list item with a link
WELCOME_PAGE ==
    "<!DOCTYPE html>\n<html>\n<head><title>Welcome to Kivi</title></head>\n<body>\n"
    \o "<h1>Welcome to Kivi Browser</h1>\n<ul>\n"
    \o "<li><a href=\"http://a.com/old\">a.com</a> - A simple test page</li>\n"
    \o "</ul>\n</body>\n</html>"

fetch_file(path, net) ==
    IF ~net.file_open THEN Result(404, "File not found: " \o path)
    ELSE IF ~net.file_read THEN Result(500, "Failed to read file")
    ELSE Result(200, net.file_data)

fetch_url(url, net) ==
    IF url = "about:home" \/ url = "about:blank" THEN Result(200, WELCOME_PAGE)
    ELSE
      Bind(parse_url(url), LAMBDA u :
        IF u.err THEN Raised
        ELSE IF u.scheme = "file" THEN fetch_file(u.path, net)
        ELSE IF ~net.dns_ok THEN Result(0, "DNS lookup failed for " \o u.host)
        ELSE IF ~net.connect_ok THEN Result(0, "Connection failed to " \o u.host)
        ELSE parse_http_response(net.response))

(***************************************************************************)
(* The receive loop of fetch_url (lines 179-191), an iteration at a time.   *)
(* loop is where the function stands and its locals:                        *)
(*   at        "loop" at the test of the while, "close" behind the loop     *)
(*             (line 193), "returned" once the function has returned        *)
(*   response, timeout   the locals of these names                          *)
(*   chunk     what recv_fn returned last: None, or Some(bytes)             *)
(*   data      the number of receives that returned data so far             *)
(*   scheme    the scheme of the URL, which chose the transport (158-167)   *)
(*   closes    the close functions called on the socket so far              *)
(***************************************************************************)
\* the number of idle iterations the loop waits for (line 181)
IDLE_LIMIT == 100

\* line 179, 180: the locals before the loop
Receiving ==
    [at |-> "loop", response |-> "", timeout |-> 0, chunk |-> None, data |-> 0,
     scheme |-> "http", closes |-> <<>>]

\* lines 158-167: the transport connected for a scheme
Connected(scheme) == [Receiving EXCEPT !.scheme = scheme]

\* lines 158-167: the close function of the transport
close_fn_of(scheme) == IF scheme = "https" THEN "tls_close" ELSE "tcp_close"

\* a fetch that leaves the socket open when nothing was received
recv_close_unless_empty(loop) ==
    IF loop.response = "" THEN [loop EXCEPT !.at = "returned"]
    ELSE [loop EXCEPT !.at = "returned", !.closes = Append(@, close_fn_of(loop.scheme))]

\* line 193: close_fn(sock), behind the loop
recv_close(loop) ==
    [loop EXCEPT !.at = "returned", !.closes = Append(@, close_fn_of(loop.scheme))]

\* chunk is None or len(chunk) == 0 (line 183)
IsIdle(chunk) == IF chunk = None THEN TRUE ELSE Len(chunk[1]) = 0

\* a body of the loop that leaves the idle counter alone when data arrives
recv_chunk_no_reset(loop, chunk) ==
    IF IsIdle(chunk) THEN
        IF Len(loop.response) > 0
        THEN [loop EXCEPT !.at = "close", !.chunk = chunk]
        ELSE [loop EXCEPT !.timeout = @ + 1, !.chunk = chunk]
    ELSE [loop EXCEPT !.response = @ \o chunk[1], !.chunk = chunk, !.data = @ + 1]

\* lines 182-190: the body of the loop, recv_fn having returned chunk
recv_chunk(loop, chunk) ==
    IF IsIdle(chunk) THEN
        IF Len(loop.response) > 0
        THEN [loop EXCEPT !.at = "close", !.chunk = chunk]
        ELSE [loop EXCEPT !.timeout = @ + 1, !.chunk = chunk]
    ELSE [loop EXCEPT !.response = @ \o chunk[1], !.timeout = 0, !.chunk = chunk,
                      !.data = @ + 1]

\* line 181: the test of the while
recv_continues(loop) == loop.timeout < IDLE_LIMIT

\* lines 193-195: the socket is closed; what the function returns
recv_result(loop) == parse_http_response(loop.response)

(***************************************************************************)
(* Navigation controller: class Browser.  A handler is an operator from    *)
(* the object (self) to Out(self', pc'): the object it leaves and where    *)
(* the event loop stands then:                                             *)
(*   "idle"     the handler returned, the loop polls the next event        *)
(*   "fetch"    navigate stands in fetch_url (line 826)                    *)
(*   "crashed"  an exception left the handler, and with it run()           *)
(*   "closed"   the loop ended (close event, or ESC outside the address    *)
(*              bar)                                                       *)
(***************************************************************************)
WIN_W == 640

WIN_H == 480

Out(self, pc_) == [self |-> self, pc |-> pc_]

\* Browser.__init__
NewBrowser(kiosk) ==
    [url |-> "", history |-> <<>>, forward_history |-> <<>>, blocks |-> <<>>,
     links |-> <<>>, scroll_y |-> 0, max_scroll |-> 0, content_height |-> 0,
     address_text |-> "", editing_url |-> FALSE, cursor_pos |-> 0, kiosk_mode |-> kiosk,
     win_w |-> WIN_W, win_h |-> WIN_H,
     content_y |-> IF kiosk THEN 20 ELSE ADDRESS_BAR_H + 2,
     content_h |-> IF kiosk THEN WIN_H - 20 ELSE WIN_H - (ADDRESS_BAR_H + 2),
     content_w |-> WIN_W - MARGIN * 2 - SCROLLBAR_W,
     scrollbar_dragging |-> FALSE, scrollbar_drag_start_y |-> 0,
     scrollbar_drag_start_scroll |-> 0, current_html |-> ""]

\* a relayout that stores the scroll range without the content height
relayout_without_height(self, html) ==
    Bind(layout_document(parse_html(html), self.content_w), LAMBDA d :
        [self EXCEPT !.blocks = d.blocks, !.links = d.links,
                     !.max_scroll = Max(0, d.content_height - self.content_h)])

\* lines 797-803 and 836-840: parse, layout, max_scroll
relayout(self, html) ==
    Bind(layout_document(parse_html(html), self.content_w), LAMBDA d :
        [self EXCEPT !.blocks = d.blocks, !.links = d.links,
                     !.content_height = d.content_height,
                     !.max_scroll = Max(0, d.content_height - self.content_h)])

\* a resize that keeps the layout it finds
handle_resize_keeping_layout(self, new_w, new_h) ==
    Out([self EXCEPT !.win_w = new_w, !.win_h = new_h,
                     !.content_h = IF self.kiosk_mode THEN new_h - 20
                                   ELSE new_h - self.content_y,
                     !.content_w = new_w - MARGIN * 2 - SCROLLBAR_W], "idle")

handle_resize(self, new_w, new_h) ==
    Bind([self EXCEPT !.win_w = new_w, !.win_h = new_h,
                      !.content_h = IF self.kiosk_mode THEN new_h - 20
                                    ELSE new_h - self.content_y,
                      !.content_w = new_w - MARGIN * 2 - SCROLLBAR_W], LAMBDA s1 :
        IF s1.current_html # ""
        THEN Bind(relayout(s1, s1.current_html), LAMBDA s2 :
               Out([s2 EXCEPT !.scroll_y = IF @ > s2.max_scroll THEN s2.max_scroll ELSE @],
                   "idle"))
        ELSE Out(s1, "idle"))

\* a bookkeeping that keeps the forward stack on a plain navigation
push_history_keeping_forward(self, from_back, from_forward) ==
    IF self.url = "" THEN self
    ELSE IF from_forward
    THEN [self EXCEPT !.forward_history = Append(@, self.url)]
    ELSE IF ~from_back
    THEN [self EXCEPT !.history = Append(@, self.url)]
    ELSE self

\* a bookkeeping that never pushes the current URL onto the back stack
push_history_never(self, from_back, from_forward) ==
    IF self.url = "" THEN self
    ELSE IF from_forward
    THEN [self EXCEPT !.forward_history = Append(@, self.url)]
    ELSE IF ~from_back
    THEN [self EXCEPT !.forward_history = <<>>]
    ELSE self

\* lines 810-815: the history bookkeeping of navigate
push_history(self, from_back, from_forward) ==
    IF self.url = "" THEN self
    ELSE IF from_forward
    THEN [self EXCEPT !.forward_history = Append(@, self.url)]
    ELSE IF ~from_back
    THEN [self EXCEPT !.history = Append(@, self.url), !.forward_history = <<>>]
    ELSE self

\* a navigate that leaves the edit mode as it finds it
navigate_keeping_edit_mode(self, url_, from_back, from_forward) ==
    Bind(resolve_url(self.url, url_), LAMBDA r :
        IF r.err THEN Out(self, "crashed")
        ELSE Out([push_history(self, from_back, from_forward) EXCEPT
                     !.url = r.url, !.address_text = r.url, !.scroll_y = 0],
                 "fetch"))

\* navigate up to fetch_url (lines 808-824)
navigate(self, url_, from_back, from_forward) ==
    Bind(resolve_url(self.url, url_), LAMBDA r :
        IF r.err THEN Out(self, "crashed")
        ELSE Out([push_history(self, from_back, from_forward) EXCEPT
                     !.url = r.url, !.address_text = r.url, !.scroll_y = 0,
                     !.editing_url = FALSE],
                 "fetch"))

\* a navigate that shows the message of an error as it is
document_unwrapped(status, body) == body

\* the document navigate shows for a status that is no redirect (lines 833-834)
document_of(status, body) ==
    IF status # 200
    THEN "<html><body><h1>Error " \o str(status) \o "</h1><p>" \o body
         \o "</p></body></html>"
    ELSE body

\* navigate after fetch_url returned a status that is no redirect (lines 833-846)
navigate_finish(self, status, body) ==
    Bind(document_of(status, body), LAMBDA html :
        relayout([self EXCEPT !.current_html = html], html))

Front(seq) == SubSeq(seq, 1, Len(seq) - 1)

LastOf(seq) == seq[Len(seq)]

\* a back that loads the current page again when there is none to go back to
back_reloading(self) ==
    IF Len(self.history) > 0
    THEN navigate([self EXCEPT !.forward_history = Append(@, self.url),
                               !.history = Front(@), !.url = ""],
                  LastOf(self.history), TRUE, FALSE)
    ELSE navigate([self EXCEPT !.url = ""], self.url, FALSE, FALSE)

back(self) ==
    IF Len(self.history) > 0
    THEN navigate([self EXCEPT !.forward_history = Append(@, self.url),
                               !.history = Front(@), !.url = ""],
                  LastOf(self.history), TRUE, FALSE)
    ELSE Out(self, "idle")

forward(self) ==
    IF Len(self.forward_history) > 0
    THEN navigate([self EXCEPT !.history = Append(@, self.url),
                               !.forward_history = Front(@), !.url = ""],
                  LastOf(self.forward_history), FALSE, TRUE)
    ELSE Out(self, "idle")

refresh(self) ==
    IF self.url # ""
    THEN navigate([self EXCEPT !.url = ""], self.url, FALSE, FALSE)
    ELSE Out(self, "idle")

\* the first link region holding (x, content_y), or None (lines 985-986)
link_at(links, x, content_y) ==
    Bind(First(1, Len(links),
               LAMBDA j : /\ links[j][1] <= x /\ x < links[j][1] + links[j][3]
                          /\ links[j][2] <= content_y
                          /\ content_y < links[j][2] + links[j][4]), LAMBDA k :
        IF k > Len(links) THEN None ELSE Some(links[k][5]))

\* which call of the controller a click makes:
\* "back", "forward", "refresh", "address", "scrollbar", "link", "none"
click_target(self, x, y) ==
    IF self.kiosk_mode /\ y < 20
    THEN IF x >= 4 /\ x < 20 /\ y >= 2 /\ y < 18 THEN "back"
         ELSE IF x >= 24 /\ x < 40 /\ y >= 2 /\ y < 18 THEN "forward"
         ELSE "none"
    ELSE IF ~self.kiosk_mode /\ y < ADDRESS_BAR_H /\ x >= 4 /\ x < 20 /\ y >= 4 /\ y < 20
    THEN "back"
    ELSE IF ~self.kiosk_mode /\ y < ADDRESS_BAR_H /\ x >= 24 /\ x < 40 /\ y >= 4 /\ y < 20
    THEN "forward"
    ELSE IF ~self.kiosk_mode /\ y < ADDRESS_BAR_H /\ x >= 44 /\ x < 60 /\ y >= 4 /\ y < 20
    THEN "refresh"
    ELSE IF ~self.kiosk_mode /\ y < ADDRESS_BAR_H /\ x >= 64 THEN "address"
    ELSE IF x >= self.win_w - SCROLLBAR_W /\ y >= self.content_y THEN "scrollbar"
    ELSE IF link_at(self.links, x, y - self.content_y + self.scroll_y) # None THEN "link"
    ELSE "none"

handle_click(self, x, y) ==
    Bind(click_target(self, x, y), LAMBDA target :
        CASE target = "back" -> back(self)
          [] target = "forward" -> forward(self)
          [] target = "refresh" -> refresh(self)
          [] target = "address" ->
                Out([self EXCEPT !.editing_url = TRUE, !.cursor_pos = Len(self.address_text)],
                    "idle")
          [] target = "scrollbar" ->
                Out([self EXCEPT !.scrollbar_dragging = TRUE, !.scrollbar_drag_start_y = y,
                                 !.scrollbar_drag_start_scroll = self.scroll_y],
                    "idle")
          [] target = "link" ->
                navigate(self, link_at(self.links, x, y - self.content_y + self.scroll_y)[1],
                         FALSE, FALSE)
          [] target = "none" -> Out(self, "idle"))

handle_mouse_up(self, x, y) == Out([self EXCEPT !.scrollbar_dragging = FALSE], "idle")

\* a drag that does not clamp the offset it computes
handle_mouse_move_unclamped(self, x, y) ==
    LET dy          == y - self.scrollbar_drag_start_y
        thumb_h     == Max(20, (self.content_h * self.content_h) \div self.content_height)
        track_range == self.content_h - thumb_h
    IN  IF self.scrollbar_dragging /\ self.max_scroll > 0 /\ track_range > 0
        THEN Out([self EXCEPT !.scroll_y = self.scrollbar_drag_start_scroll
                                             + (dy * self.max_scroll) \div track_range],
                 "idle")
        ELSE Out(self, "idle")

handle_mouse_move(self, x, y) ==
    LET dy          == y - self.scrollbar_drag_start_y
        bar_h       == self.content_h
        thumb_h     == Max(20, (bar_h * self.content_h) \div self.content_height)
        track_range == bar_h - thumb_h
        new_scroll  == Max(0, Min(self.max_scroll,
                                  self.scrollbar_drag_start_scroll
                                  + (dy * self.max_scroll) \div track_range))
    IN  IF self.scrollbar_dragging /\ self.max_scroll > 0 /\ track_range > 0
        THEN Out([self EXCEPT !.scroll_y = new_scroll], "idle")
        ELSE Out(self, "idle")

\* the divisors of draw_scrollbar (lines 934-935) behind its guard of line 928
draw_scrollbar_divisors(self) ==
    IF self.max_scroll <= 0 THEN {}
    ELSE {self.content_height, self.max_scroll}

\* the divisors of handle_mouse_move (lines 1000, 1003) behind its guards of
\* lines 996 and 1002
handle_mouse_move_divisors(self) ==
    IF self.scrollbar_dragging /\ self.max_scroll > 0
    THEN IF self.content_height = 0 THEN {0}
         ELSE Bind(self.content_h
                   - Max(20, (self.content_h * self.content_h) \div self.content_height),
                   LAMBDA track_range :
                       IF track_range > 0 THEN {self.content_height, track_range}
                       ELSE {self.content_height})
    ELSE {}

KEY_UP == 256

KEY_DOWN == 257

KEY_PGUP == 265

KEY_PGDN == 266

handle_key(self, key) ==
    IF self.editing_url
    THEN IF key = 13 \/ key = 10
         THEN navigate([self EXCEPT !.editing_url = FALSE], self.address_text, FALSE, FALSE)
         ELSE IF key = 27
         THEN Out([self EXCEPT !.editing_url = FALSE, !.address_text = self.url], "idle")
         ELSE IF key = 8 \/ key = 127
         THEN IF self.cursor_pos > 0
              THEN Out([self EXCEPT
                          !.address_text = Slice(@, 0, self.cursor_pos - 1)
                                           \o From(@, self.cursor_pos),
                          !.cursor_pos = @ - 1], "idle")
              ELSE Out(self, "idle")
         ELSE IF key >= 32 /\ key < 127
         THEN Out([self EXCEPT
                     !.address_text = Slice(@, 0, self.cursor_pos) \o chr(key)
                                      \o From(@, self.cursor_pos),
                     !.cursor_pos = @ + 1], "idle")
         ELSE Out(self, "idle")
    ELSE IF key = 27 THEN Out(self, "closed")
    ELSE IF key = KEY_UP THEN Out([self EXCEPT !.scroll_y = Max(0, @ - 20)], "idle")
    ELSE IF key = KEY_DOWN
    THEN Out([self EXCEPT !.scroll_y = Min(self.max_scroll, @ + 20)], "idle")
    ELSE IF key = KEY_PGUP
    THEN Out([self EXCEPT !.scroll_y = Max(0, @ - self.content_h)], "idle")
    ELSE IF key = KEY_PGDN
    THEN Out([self EXCEPT !.scroll_y = Min(self.max_scroll, @ + self.content_h)], "idle")
    ELSE Out(self, "idle")

(***************************************************************************)
(* The environment of the model: what the network answers, where the user  *)
(* clicks, which keys are pressed, the sizes the window takes.             *)
(***************************************************************************)
\* a page with a relative link and a link whose port is no number
PAGE == "<p><a href=\"/old\">old</a> <a href=\"http://a.com:x/\">bad</a></p>"

RESPONSE_PAGE == "HTTP/1.0 200 OK\r\nContent-Type: text/html\r\n\r\n" \o PAGE

RESPONSE_EMPTY == "HTTP/1.0 200 OK\r\n\r\n"

RESPONSE_REDIRECT == "HTTP/1.0 302 Found\r\nLocation: /new\r\n\r\n"

RESPONSE_UNFRAMED == "HTTP/1.0 200 OK\r\n"

RESPONSE_NONE == ""

RESPONSE_BAD_STATUS == "HTTP/1.0 OK\r\n\r\n"

NetOf(dns_ok, connect_ok, response) ==
    [dns_ok |-> dns_ok, connect_ok |-> connect_ok, response |-> response,
     file_open |-> FALSE, file_read |-> FALSE, file_data |-> ""]

NoNet == NetOf(FALSE, FALSE, "-")

Answers(responses) == {NetOf(TRUE, TRUE, r) : r \in responses}

DnsFails == NetOf(FALSE, FALSE, "")

ConnectFails == NetOf(TRUE, FALSE, "")

\* click points: the buttons, the address bar, the scrollbar, the first and
\* the second link of PAGE, the link of WELCOME_PAGE
BackButton == <<10, 10>>

ForwardButton == <<30, 10>>

RefreshButton == <<50, 10>>

AddressBar == <<100, 10>>

Scrollbar == <<635, 40>>

PageLink == <<12, 45>>

BadLink == <<44, 45>>

WelcomeLink == <<52, 105>>

\* in the toolbar, below the back button
BelowButtons == <<12, 22>>

\* the longest back or forward stack followed
MaxHistory == 1

\* the most redirects of one navigation followed
MaxHops == 1

\* the most characters typed or deleted in the address bar in one run
MaxEdits == 1

\* the same for the runs that scroll
ScrollMaxHistory == 1

ScrollMaxHops == 1

\* the same for the runs that follow a chain of redirects
ChainMaxHistory == 12

ChainMaxHops == 12

\* the most receives of one fetch that return data
MaxChunks == 2

\* navigation: every answer of the network, a window tall enough for every
\* document
NavEnv ==
    [urls |-> {"about:home", "http://a.com/old"},
     nets |-> {DnsFails, ConnectFails}
              \cup Answers({RESPONSE_PAGE, RESPONSE_EMPTY, RESPONSE_REDIRECT,
                            RESPONSE_UNFRAMED, RESPONSE_NONE, RESPONSE_BAD_STATUS}),
     clicks |-> {BackButton, ForwardButton, RefreshButton, AddressBar, PageLink, BadLink,
                 WelcomeLink},
     keys |-> {13, 27, 8, 120},
     ys |-> {30},
     sizes |-> {<<640, 480>>, <<200, 480>>},
     max_history |-> MaxHistory, max_hops |-> MaxHops, max_edits |-> MaxEdits]

\* scrolling: windows lower than the documents, in which every scroll step
\* is a multiple of 20
ScrollEnv ==
    [urls |-> {"http://a.com/old"},
     nets |-> Answers({RESPONSE_PAGE, RESPONSE_EMPTY, RESPONSE_REDIRECT, RESPONSE_BAD_STATUS}),
     clicks |-> {BackButton, ForwardButton, RefreshButton, Scrollbar, PageLink, BelowButtons},
     keys |-> {KEY_UP, KEY_DOWN, KEY_PGUP, KEY_PGDN},
     ys |-> {20, 60},
     sizes |-> {<<640, 66>>, <<640, 46>>},
     max_history |-> ScrollMaxHistory, max_hops |-> ScrollMaxHops, max_edits |-> 0]

\* a server that may redirect again and again
ChainEnv ==
    [urls |-> {"http://a.com/old"},
     nets |-> Answers({RESPONSE_PAGE, RESPONSE_REDIRECT, RESPONSE_BAD_STATUS}),
     clicks |-> {AddressBar},
     keys |-> {27},
     ys |-> {30},
     sizes |-> {<<640, 480>>},
     max_history |-> ChainMaxHistory, max_hops |-> ChainMaxHops, max_edits |-> 0]

\* the most tokens of a markup given to the parser
MaxTokens == 3

\* pieces of markup: opening tags, closing tags with and without an open
\* element of their name, void and self-closing tags, a declaration, a tag
\* that is not ended, text
Tokens == {"<p>", "<B>", "</b>", "</i>", "<br>", "<div/>", "<img src=x />", "<!x>", "x &amp;", "<a"}

RECURSIVE Markups(_)
\* the markups of at most n tokens
Markups(n) ==
    IF n = 0 THEN {""}
    ELSE {h \o t : h \in Markups(n - 1), t \in Tokens \cup {""}}

\* the most words of a text given to the layout
MaxWords == 3

\* words of the default size: 8, 16 and 72 pixels wide
Words == {"a", "bb", "wwwwwwwww"}

RECURSIVE Texts(_)
\* the texts of at most n words
Texts(n) ==
    IF n = 0 THEN {""}
    ELSE Texts(n - 1) \cup {IF t = "" THEN w ELSE t \o " " \o w : t \in Texts(n - 1), w \in Words}

\* a paragraph with text of its own, without or with an element b of text
\* inside it
Paragraphs ==
    {[Element("p", <<>>) EXCEPT !.text = t] : t \in Texts(MaxWords - 1)}
    \cup {[Element("p", <<>>) EXCEPT !.text = t,
                                     !.children = <<[Element("b", <<>>) EXCEPT !.text = c]>>] :
            t \in Texts(MaxWords - 1), c \in Texts(MaxWords - 1) \ {""}}

\* content widths: "bb bb" fills the first, the long word fits neither
Widths == {40, 64}

\* left indents: none, and that of a quotation
Indents == {0, 20}

\* URLs given to parse_url: each scheme prefix or none, before a host (bare,
\* with a port, with a port that is no number) or none, before a path or none
Urls ==
    {scheme \o host \o path :
        scheme \in {"file://", "http://", "https://", ""},
        host \in {"", "a.com", "a.com:8080", "a.com:x"},
        path \in {"", "/", "/d/p.html"}}

\* controllers navigate is called on: without and with a current URL (of a
\* server, of a server and port, of a file, of a built-in page), each stack
\* empty or not
Controllers ==
    {[NewBrowser(FALSE) EXCEPT !.url = u, !.history = h, !.forward_history = f] :
        u \in {"", "http://a.com/old", "https://a.com:8443/d/", "file:///d/p.html",
               "about:home", "about:blank"},
        h \in {<<>>, <<"http://a.com/">>},
        f \in {<<>>, <<"http://a.com/new">>}}

\* the calls of navigate: a relative, an absolute or a scheme-less URL, either
\* flag set or not
NavigateCalls ==
    {[self |-> c, url |-> u, from_back |-> fb, from_forward |-> ff] :
        c \in Controllers, u \in {"/new", "http://b.org/", "a.com", "p.html"},
        fb \in BOOLEAN, ff \in BOOLEAN}

\* header blocks of a response, each with the value of its Location header
\* (None: it has none)
HeaderBlocks ==
    {[text |-> "", location |-> None],
     [text |-> "\r\nLocation: /new", location |-> Some("/new")],
     [text |-> "\r\nContent-Type: text/html\r\nLOCATION:  http://b.org/ ",
      location |-> Some("http://b.org/")],
     [text |-> "\r\nX-Location: /x", location |-> None]}

\* responses given to parse_http_response: a status line, a header block, the
\* empty line and a body
Responses ==
    {[data |-> "HTTP/1.0 " \o status \o h.text \o "\r\n\r\n" \o body,
      location |-> h.location, body |-> body] :
        status \in {"200 OK", "301 Moved", "302 Found", "307 Temporary", "308 Permanent",
                    "404 Not Found"},
        h \in HeaderBlocks,
        body \in {"", "<p>moved</p>"}}

\* reference bodies, each with the character it names (None: it names none):
\* named, decimal and hexadecimal, of 3 to 12 characters
ReferenceBodies ==
    {[body |-> "amp", value |-> Some("&")],
     [body |-> "foo", value |-> None],
     [body |-> "#65", value |-> Some("A")],
     [body |-> "#x41", value |-> Some("A")],
     [body |-> "#000000065", value |-> Some("A")],
     [body |-> "#0000000065", value |-> Some("A")],
     [body |-> "#x000000041", value |-> Some("A")],
     [body |-> "#00000000065", value |-> Some("A")]}

\* texts given to decode_entities: one reference, text before and after it
ReferenceTexts ==
    {[text |-> pre \o "&" \o r.body \o ";" \o post, pre |-> pre, post |-> post,
      body |-> r.body, value |-> r.value] :
        pre \in {"", "a ", "&"}, r \in ReferenceBodies, post \in {"", "b", ";"}}

\* the most items of a list given to the layout
MaxItems == 2

\* list items: empty, with text, with an empty inline element, with an empty
\* nested list, with a paragraph, with a line break
Items ==
    {"<li></li>", "<li>a</li>", "<li><b></b></li>", "<li><ul></ul></li>",
     "<li><p>a</p></li>", "<li><br></li>"}

RECURSIVE ItemRuns(_)
\* the runs of 1 to n items
ItemRuns(n) ==
    IF n = 1 THEN Items
    ELSE ItemRuns(n - 1) \cup {r \o item : r \in ItemRuns(n - 1), item \in Items}

\* the list elements the parser gives for those runs in ul and in ol
Lists ==
    {parse_html("<" \o tag \o ">" \o r \o "</" \o tag \o ">").children[1] :
        tag \in {"ul", "ol"}, r \in ItemRuns(MaxItems)}

\* documents given to layout_document: empty, a paragraph, a rule, a heading
\* and text, a body with a paragraph and a break, and the lists
Documents ==
    {parse_html(m) : m \in {"", "<p>a</p>", "<hr>", "<h1>bb</h1>a",
                            "<html><body><p>a bb</p><br></body></html>"}
                            \cup {"<ul>" \o r \o "</ul>" : r \in ItemRuns(MaxItems)}}

\* what a receive returns: nothing, no bytes, or a piece of a response
Chunks == {None, Some(""), Some("HTTP/1.0 200 OK\r\n\r\n"), Some("ok"), Some("HTTP/1.0 OK\r\n\r\n")}

(***************************************************************************)
(* State.  browser is the Browser object, pc the place of the event loop.  *)
(* The others record what the properties speak of:                         *)
(*   entry  the call of navigate, back, forward or refresh made by the     *)
(*          last event: its name, whether it went on to fetch (acted), the *)
(*          URL and the stacks when it was entered, the URL it asked for   *)
(*          once resolved (target), the Location of the last redirect it   *)
(*          followed, and for a forward() that follows a back() the URL    *)
(*          before that back() (after_back)                                *)
(*   hops   the redirects followed by that call so far                     *)
(*   net    what the platform did in the last fetch of that call           *)
(*   edits  the characters typed or deleted so far                         *)
(*   recv   the receive loop of a fetch followed an iteration at a time     *)
(*          (NoRecv where a fetch is taken as one step)                     *)
(*   unit   one function of the module called on its own: its name (fn),    *)
(*          its arguments (arg), where the call stands ("called",           *)
(*          "returned"), for parse_html the locals i and stack of its loop, *)
(*          and what it returned (NoUnit where no such call is followed)    *)
(***************************************************************************)
VARIABLES browser, pc, entry, hops, net, edits, recv, unit

vars == <<browser, pc, entry, hops, net, edits, recv, unit>>

NoRecv == [Receiving EXCEPT !.at = "none"]

NoUnit == [fn |-> "none", at |-> "none", arg |-> "", i |-> 0, stack |-> <<>>, result |-> ""]

\* fn(arg) is entered; for parse_html, lines 321-324
Called(fn, arg) ==
    [fn |-> fn, at |-> "called", arg |-> arg, i |-> 0,
     stack |-> IF fn = "parse_html" THEN <<Element("root", <<>>)>> ELSE <<>>,
     result |-> ""]

NoEntry ==
    [call |-> "none", acted |-> FALSE, url |-> "", history |-> <<>>,
     forward_history |-> <<>>, target |-> "", location |-> "", after_back |-> ""]

\* the record of a call entered in state self that leaves out
EntryOf(call, self, out) ==
    [call |-> call, acted |-> out.pc # "idle", url |-> self.url, history |-> self.history,
     forward_history |-> self.forward_history,
     target |-> IF out.pc = "fetch" THEN out.self.url ELSE "",
     location |-> "",
     after_back |-> IF call = "forward" /\ entry.call = "back" /\ entry.acted
                    THEN entry.url ELSE ""]

\* Browser(kiosk_mode) is constructed, run() not yet called
Constructed(kiosk_modes, loop) ==
    /\ recv = loop
    /\ unit = NoUnit
    /\ browser \in {NewBrowser(kiosk) : kiosk \in kiosk_modes}
    /\ pc = "start"
    /\ entry = NoEntry
    /\ hops = 0
    /\ net = NoNet
    /\ edits = 0

Init == Constructed({FALSE, TRUE}, NoRecv)

InitScroll == Constructed({FALSE}, NoRecv)

\* fetch_url stands before its receive loop
InitRecv == \E scheme \in {"http", "https"} : Constructed({FALSE}, Connected(scheme))

\* what a handler that returned out leaves
Leaves(out, E) ==
    /\ Len(out.self.history) <= E.max_history
    /\ Len(out.self.forward_history) <= E.max_history
    /\ browser' = out.self
    /\ pc' = out.pc

\* the same, the handler having made the call named call ("none": no call)
Calls(call, out, E) ==
    /\ Leaves(out, E)
    /\ entry' = IF call = "none" THEN NoEntry ELSE EntryOf(call, browser, out)
    /\ hops' = 0

\* run(): the window is created and navigate(initial_url) is called
Run(initial_url, E) ==
    /\ pc = "start"
    /\ Calls("navigate", navigate(browser, initial_url, FALSE, FALSE), E)
    /\ UNCHANGED <<net, edits, recv, unit>>

\* run(): window_create fails, run returns 1
RunFails ==
    /\ pc = "start"
    /\ pc' = "closed"
    /\ UNCHANGED <<browser, entry, hops, net, edits, recv, unit>>

\* the call a click on target makes
call_of(target) ==
    IF target \in {"back", "forward", "refresh"} THEN target
    ELSE IF target = "link" THEN "navigate"
    ELSE "none"

\* a mouse-down event
Click(x, y, E) ==
    /\ pc = "idle"
    /\ Calls(call_of(click_target(browser, x, y)), handle_click(browser, x, y), E)
    /\ net' = NoNet
    /\ UNCHANGED <<edits, recv, unit>>

\* a mouse-up event
MouseUp(E) ==
    /\ pc = "idle"
    /\ Calls("none", handle_mouse_up(browser, 0, 0), E)
    /\ net' = NoNet
    /\ UNCHANGED <<edits, recv, unit>>

\* a mouse-move event
MouseMove(y, E) ==
    /\ pc = "idle"
    /\ Calls("none", handle_mouse_move(browser, 0, y), E)
    /\ net' = NoNet
    /\ UNCHANGED <<edits, recv, unit>>

\* a key event
Key(key, E) ==
    /\ pc = "idle"
    /\ Calls(IF browser.editing_url /\ (key = 13 \/ key = 10) THEN "navigate" ELSE "none",
             handle_key(browser, key), E)
    /\ edits' = IF browser.editing_url /\ browser'.editing_url
                   /\ browser'.address_text # browser.address_text
                THEN edits + 1 ELSE edits
    /\ edits' <= E.max_edits
    /\ net' = NoNet
    /\ UNCHANGED <<recv, unit>>

\* a resize event
Resize(new_w, new_h, E) ==
    /\ pc = "idle"
    /\ Calls("none", handle_resize(browser, new_w, new_h), E)
    /\ net' = NoNet
    /\ UNCHANGED <<edits, recv, unit>>

\* a close event
Close ==
    /\ pc = "idle"
    /\ pc' = "closed"
    /\ entry' = NoEntry
    /\ hops' = 0
    /\ net' = NoNet
    /\ UNCHANGED <<browser, edits, recv, unit>>

\* fetch_url raises: the exception leaves navigate, the handler and run
FetchRaises(n) ==
    /\ pc = "fetch"
    /\ fetch_url(browser.url, n).raised
    /\ pc' = "crashed"
    /\ net' = n
    /\ UNCHANGED <<browser, entry, hops, edits, recv, unit>>

\* fetch_url returned r, a redirect status: navigate(body) (lines 829-831)
Redirects(r, E) ==
    /\ ~r.raised
    /\ IsRedirect(r.status)
    /\ Leaves(navigate(browser, r.body, FALSE, FALSE), E)
    /\ entry' = [entry EXCEPT !.location = r.body]

\* fetch_url returned r, any other status: lines 833-846
Completes(r) ==
    /\ ~r.raised
    /\ ~IsRedirect(r.status)
    /\ browser' = navigate_finish(browser, r.status, r.body)

\* fetch_url returns a redirect status
FetchRedirects(n, E) ==
    /\ pc = "fetch"
    /\ hops < E.max_hops
    /\ Redirects(fetch_url(browser.url, n), E)
    /\ hops' = hops + 1
    /\ net' = n
    /\ UNCHANGED <<edits, recv, unit>>

\* fetch_url returns any other status: the document is installed
FetchCompletes(n) ==
    /\ pc = "fetch"
    /\ Completes(fetch_url(browser.url, n))
    /\ pc' = "idle"
    /\ net' = n
    /\ UNCHANGED <<entry, hops, edits, recv, unit>>

\* the receive loop runs its body: recv_fn returns chunk
Receive(chunk) ==
    /\ recv.at = "loop"
    /\ recv_continues(recv)
    /\ IsIdle(chunk) \/ recv.data < MaxChunks
    /\ recv' = recv_chunk(recv, chunk)
    /\ UNCHANGED <<browser, pc, entry, hops, net, edits, unit>>

\* the test of the receive loop fails
ReceiveTimesOut ==
    /\ recv.at = "loop"
    /\ ~recv_continues(recv)
    /\ recv' = [recv EXCEPT !.at = "close"]
    /\ UNCHANGED <<browser, pc, entry, hops, net, edits, unit>>

\* fetch_url returns behind the receive loop
ReceiveReturns ==
    /\ recv.at = "close"
    /\ recv' = recv_close(recv)
    /\ UNCHANGED <<browser, pc, entry, hops, net, edits, unit>>

\* line 329-330: the tag at i is not ended, the loop is left by break
parse_breaks(html, i) == At(html, i) = "<" /\ find(html, ">", i) = -1

\* the locals of parse_html after one more iteration
parse_iterate(u) ==
    Bind(parse_step(u.arg, Loop(u.i, u.stack)), LAMBDA st :
        [u EXCEPT !.i = st.i, !.stack = st.stack])

\* the loop of parse_html has an iteration to run
ParseContinues ==
    /\ unit.fn = "parse_html" /\ unit.at = "called"
    /\ unit.i < Len(unit.arg)
    /\ ~parse_breaks(unit.arg, unit.i)

\* parse_html runs one iteration of its loop
ParseIterates ==
    /\ ParseContinues
    /\ unit' = parse_iterate(unit)
    /\ UNCHANGED <<browser, pc, entry, hops, net, edits, recv>>

\* parse_html leaves its loop and returns root (line 377)
ParseReturns ==
    /\ unit.fn = "parse_html" /\ unit.at = "called"
    /\ IF unit.i < Len(unit.arg) THEN parse_breaks(unit.arg, unit.i) ELSE TRUE
    /\ unit' = [unit EXCEPT !.at = "returned", !.result = close_all(unit.stack)]
    /\ UNCHANGED <<browser, pc, entry, hops, net, edits, recv>>

\* layout_text and layout_inline called on an empty page at the default size
layout_call(u) ==
    IF u.fn = "layout_text"
    THEN layout_text(u.arg.text, Lay(<<>>, <<>>, 0), u.arg.indent, FONT_SIZES("default"),
                     {}, BLACK, None, u.arg.W)
    ELSE layout_inline(u.arg.elem, Lay(<<>>, <<>>, 0), u.arg.indent, FONT_SIZES("default"),
                       {}, None, u.arg.W)

\* a layout function places its words and returns
LayoutReturns ==
    /\ unit.fn \in {"layout_text", "layout_inline"} /\ unit.at = "called"
    /\ unit' = [unit EXCEPT !.at = "returned", !.result = layout_call(unit)]
    /\ UNCHANGED <<browser, pc, entry, hops, net, edits, recv>>

\* parse_url returns its tuple, or int() raises at line 114
ParseUrlReturns ==
    /\ unit.fn = "parse_url" /\ unit.at = "called"
    /\ unit' = [unit EXCEPT !.at = IF parse_url(unit.arg).err THEN "raised" ELSE "returned",
                            !.result = parse_url(unit.arg)]
    /\ UNCHANGED <<browser, pc, entry, hops, net, edits, recv>>

\* navigate has done its bookkeeping and stands before fetch_url (line 826),
\* or resolve_url raised
NavigateBookkeeps ==
    /\ unit.fn = "navigate" /\ unit.at = "called"
    /\ unit' = Bind(navigate(unit.arg.self, unit.arg.url, unit.arg.from_back,
                             unit.arg.from_forward), LAMBDA out :
                    [unit EXCEPT !.at = IF out.pc = "fetch" THEN "returned" ELSE "raised",
                                 !.result = out.self])
    /\ UNCHANGED <<browser, pc, entry, hops, net, edits, recv>>

\* parse_http_response returns its pair
ParseResponseReturns ==
    /\ unit.fn = "parse_http_response" /\ unit.at = "called"
    /\ unit' = Bind(parse_http_response(unit.arg.data), LAMBDA r :
                    [unit EXCEPT !.at = IF r.raised THEN "raised" ELSE "returned",
                                 !.result = r])
    /\ UNCHANGED <<browser, pc, entry, hops, net, edits, recv>>

\* decode_entities returns its string
DecodeReturns ==
    /\ unit.fn = "decode_entities" /\ unit.at = "called"
    /\ unit' = [unit EXCEPT !.at = "returned", !.result = decode_entities(unit.arg.text)]
    /\ UNCHANGED <<browser, pc, entry, hops, net, edits, recv>>

\* layout_element lays an element out on an empty page, as layout_document
\* calls it (line 776), and returns the cursor
LayoutElementReturns ==
    /\ unit.fn = "layout_element" /\ unit.at = "called"
    /\ unit' = [unit EXCEPT !.at = "returned",
                            !.result = layout_element(unit.arg.elem, Lay(<<>>, <<>>, MARGIN), 0,
                                                      16, {}, None, unit.arg.W)]
    /\ UNCHANGED <<browser, pc, entry, hops, net, edits, recv>>

\* layout_document returns blocks, links and content height
LayoutDocumentReturns ==
    /\ unit.fn = "layout_document" /\ unit.at = "called"
    /\ unit' = [unit EXCEPT !.at = "returned",
                            !.result = layout_document(unit.arg.root, unit.arg.W)]
    /\ UNCHANGED <<browser, pc, entry, hops, net, edits, recv>>

Next ==
    \/ \E u \in NavEnv.urls : Run(u, NavEnv)
    \/ RunFails
    \/ \E p \in NavEnv.clicks : Click(p[1], p[2], NavEnv)
    \/ MouseUp(NavEnv)
    \/ \E y \in NavEnv.ys : MouseMove(y, NavEnv)
    \/ \E k \in NavEnv.keys : Key(k, NavEnv)
    \/ \E sz \in NavEnv.sizes : Resize(sz[1], sz[2], NavEnv)
    \/ Close
    \/ \E n \in NavEnv.nets : FetchRaises(n)
    \/ \E n \in NavEnv.nets : FetchRedirects(n, NavEnv)
    \/ \E n \in NavEnv.nets : FetchCompletes(n)

Spec == Init /\ [][Next]_vars

NextScroll ==
    \/ \E u \in ScrollEnv.urls : Run(u, ScrollEnv)
    \/ RunFails
    \/ \E p \in ScrollEnv.clicks : Click(p[1], p[2], ScrollEnv)
    \/ MouseUp(ScrollEnv)
    \/ \E y \in ScrollEnv.ys : MouseMove(y, ScrollEnv)
    \/ \E k \in ScrollEnv.keys : Key(k, ScrollEnv)
    \/ \E sz \in ScrollEnv.sizes : Resize(sz[1], sz[2], ScrollEnv)
    \/ Close
    \/ \E n \in ScrollEnv.nets : FetchRaises(n)
    \/ \E n \in ScrollEnv.nets : FetchRedirects(n, ScrollEnv)
    \/ \E n \in ScrollEnv.nets : FetchCompletes(n)

SpecScroll == InitScroll /\ [][NextScroll]_vars

NextChain ==
    \/ \E u \in ChainEnv.urls : Run(u, ChainEnv)
    \/ RunFails
    \/ \E p \in ChainEnv.clicks : Click(p[1], p[2], ChainEnv)
    \/ MouseUp(ChainEnv)
    \/ \E y \in ChainEnv.ys : MouseMove(y, ChainEnv)
    \/ \E k \in ChainEnv.keys : Key(k, ChainEnv)
    \/ \E sz \in ChainEnv.sizes : Resize(sz[1], sz[2], ChainEnv)
    \/ Close
    \/ \E n \in ChainEnv.nets : FetchRaises(n)
    \/ \E n \in ChainEnv.nets : FetchRedirects(n, ChainEnv)
    \/ \E n \in ChainEnv.nets : FetchCompletes(n)

SpecChain == Init /\ [][NextChain]_vars

NextRecv ==
    \/ \E chunk \in Chunks : Receive(chunk)
    \/ ReceiveTimesOut
    \/ ReceiveReturns

\* a function of the module is called on its own
InitUnit ==
    /\ browser = NewBrowser(FALSE)
    /\ pc = "start"
    /\ entry = NoEntry
    /\ hops = 0
    /\ net = NoNet
    /\ edits = 0
    /\ recv = NoRecv
    /\ \/ unit \in {Called("parse_html", html) : html \in Markups(MaxTokens)}
       \/ unit \in {Called("parse_url", url) : url \in Urls}
       \/ unit \in {Called("navigate", call) : call \in NavigateCalls}
       \/ unit \in {Called("parse_http_response", r) : r \in Responses}
       \/ unit \in {Called("decode_entities", t) : t \in ReferenceTexts}
       \/ unit \in {Called("layout_element", [elem |-> e, W |-> w]) :
                        e \in Lists, w \in Widths}
       \/ unit \in {Called("layout_document", [root |-> d, W |-> w]) :
                        d \in Documents, w \in Widths}
       \/ unit \in {Called("layout_text", [text |-> t, W |-> w, indent |-> d]) :
                        t \in Texts(MaxWords), w \in Widths, d \in Indents}
       \/ unit \in {Called("layout_inline", [elem |-> e, W |-> w, indent |-> d]) :
                        e \in Paragraphs, w \in Widths, d \in Indents}

NextUnit ==
    \/ ParseIterates
    \/ ParseReturns
    \/ LayoutReturns
    \/ ParseUrlReturns
    \/ NavigateBookkeeps
    \/ ParseResponseReturns
    \/ DecodeReturns
    \/ LayoutElementReturns
    \/ LayoutDocumentReturns

\* A call of parse_html, whose loop is followed an iteration at a time, goes
\* on while it can.  An iteration is possible exactly where the loop
\* continues, so weak fairness of the iteration is written with that
\* condition.
SpecUnit ==
    /\ InitUnit /\ [][NextUnit]_vars
    /\ WF_vars(ParseReturns)
    /\ ([]<>(~ParseContinues) \/ []<><<ParseIterates>>_vars)

\* fetch_url is not held up for ever: sleep_ms and sched_yield return
SpecRecv == InitRecv /\ [][NextRecv]_vars /\ WF_vars(NextRecv)

(***************************************************************************)
(* Properties.                                                             *)
(***************************************************************************)
\* the event loop has handled an event and waits for the next one
Returned == pc = "idle"

\* the last event made a plain call of navigate that went on to fetch
PlainNavigate == entry.call = "navigate" /\ entry.acted

ScrollWithinContent ==
    Returned =>
        /\ 0 <= browser.scroll_y
        /\ browser.scroll_y <= Max(0, browser.content_height - browser.content_h)

\* C3: back() and then forward() leave the URL that was current before
\* back()
BackForwardRestores ==
    Returned /\ entry.call = "forward" /\ entry.after_back # ""
        => browser.url = entry.after_back

\* C4: a plain navigate made while a current URL exists returns with the
\* forward stack empty
PlainNavigateClearsForward ==
    Returned /\ PlainNavigate /\ entry.url # "" => browser.forward_history = <<>>

\* a plain navigate made after a back(), the forward stack holding a URL, has
\* returned
NavigatedAfterBack ==
    /\ Returned /\ PlainNavigate /\ entry.url # ""
    /\ entry.forward_history # <<>>
    /\ browser.forward_history = <<>>

\* C5: on a controller with no current URL, navigate(u) that follows one
\* redirect with Location l ends with the URL l resolved against u and with
\* the back stack holding exactly u
OneRedirectOneEntry ==
    Returned /\ PlainNavigate /\ entry.url = "" /\ hops = 1 =>
        /\ browser.url = resolve_url(entry.target, entry.location).url
        /\ browser.history = <<entry.target>>

\* navigate("http://a.com/old") on a new controller was answered 302 with
\* Location /new and has returned
RedirectedOnce ==
    /\ Returned /\ PlainNavigate /\ entry.url = "" /\ hops = 1
    /\ entry.target = "http://a.com/old"
    /\ entry.location = "/new"
    /\ browser.url = "http://a.com/new"
    /\ browser.history = <<"http://a.com/old">>

\* C6: a navigate that follows redirects returns with the back stack it was
\* entered with plus at most the URL that was current then: no redirecting
\* URL is pushed
NoEntryForHop ==
    Returned /\ PlainNavigate =>
        \/ browser.history = entry.history
        \/ entry.url # "" /\ browser.history = Append(entry.history, entry.url)

\* C7: a navigation to a URL whose port is no number does not stop the
\* controller
BadPortKeepsRunning == pc = "crashed" => ~parse_url(browser.url).err

\* what the platform does in a fetch that fails in transport: no address, no
\* connection, no data before the idle limit, a response without the blank
\* line that ends the headers
TransportFailures ==
    {DnsFails, ConnectFails} \cup Answers({RESPONSE_NONE, RESPONSE_UNFRAMED})

\* fetch_url(url) gets as far as the network
Contacts(url) ==
    /\ url # "about:home" /\ url # "about:blank"
    /\ ~parse_url(url).err
    /\ parse_url(url).scheme # "file"

\* the fetch of the current URL gave status 0 and a message, and the error
\* document of that message is the installed document, parsed and laid out
ErrorDocumentInstalled(r) ==
    /\ ~r.raised
    /\ r.status = 0
    /\ browser.current_html
         = "<html><body><h1>Error 0</h1><p>" \o r.body \o "</p></body></html>"
    /\ browser.blocks
         = layout_document(parse_html(browser.current_html), browser.content_w).blocks
    /\ browser.blocks # <<>>

\* C8: a DNS failure, a connection failure, an idle timeout without data and
\* a response with malformed framing make fetch return status 0 and a
\* message; navigate installs the error document of them, and the controller
\* waits for the next event
TransportErrorsShown ==
    net \in TransportFailures /\ Contacts(browser.url) =>
        /\ Returned
        /\ ErrorDocumentInstalled(fetch_url(browser.url, net))

\* the error document of a failed DNS lookup is shown
DnsErrorShown ==
    /\ Returned
    /\ net = DnsFails
    /\ browser.current_html
         = "<html><body><h1>Error 0</h1><p>DNS lookup failed for a.com</p></body></html>"

\* C9: a navigate follows no more redirects than a hop cap (10)
HopsCapped == hops <= 10

\* one step of the receive loop is as C10 says
ReceiveStepBounded ==
    recv.at = "loop" =>
        IF recv'.at = "loop"
        THEN IF IsIdle(recv'.chunk)
             THEN /\ recv.response = ""
                  /\ recv.timeout < IDLE_LIMIT
                  /\ recv'.timeout = recv.timeout + 1
             ELSE recv'.timeout = 0
        ELSE \/ recv.timeout = IDLE_LIMIT /\ recv.response = ""
             \/ IsIdle(recv'.chunk) /\ recv.data > 0 /\ recv.response # ""

\* C10: the receive loop of fetch ends when only finitely many receives
\* return data: it is left after 100 idle receives in a row or at the first
\* idle receive after data, and data sets the idle counter to 0
ReceiveLoopEnds ==
    /\ <>(recv.at = "returned")
    /\ [][ReceiveStepBounded]_vars
    /\ [](recv.at = "loop" => recv.timeout <= IDLE_LIMIT)

\* the loop was left after 100 idle receives, and fetch_url has returned
IdleLimitReached ==
    /\ recv.at = "returned"
    /\ recv.timeout = IDLE_LIMIT
    /\ recv.data = 0
    /\ recv_result(recv) = Result(0, "Invalid HTTP response")

\* C11: a fetch that opened a transport closes it exactly once before it
\* returns, with the close function of that transport, however the receive
\* loop ended and whether or not the response can be parsed
TransportClosedOnce ==
    IF recv.at = "returned"
    THEN recv.closes = <<close_fn_of(recv.scheme)>>
    ELSE recv.closes = <<>>

\* a secured transport was closed once behind a response that cannot be
\* parsed
ClosedBeforeParseRaises ==
    /\ recv.at = "returned"
    /\ recv.scheme = "https"
    /\ recv.closes = <<"tls_close">>
    /\ recv_result(recv).raised
Parsing == unit.fn = "parse_html" /\ unit.at = "called"

Parsed == unit.fn = "parse_html" /\ unit.at = "returned"

\* an iteration of the loop of parse_html leaves the position further on,
\* within the input
ParseAdvances ==
    Parsing /\ unit'.at = "called" => unit.i < unit'.i /\ unit'.i <= Len(unit.arg)

RECURSIVE closing_tags(_)
\* the closing tags of the open elements of a stack, the innermost first
closing_tags(stack) ==
    IF Len(stack) <= 1 THEN ""
    ELSE "</" \o stack[Len(stack)].tag \o ">" \o closing_tags(SubSeq(stack, 1, Len(stack) - 1))

\* the tree returned is the tree of the input scanned, and the one the input
\* gives with every element still open closed where the scan ended
ParsedAsIfClosed ==
    Parsed => /\ unit.result = parse_html(unit.arg)
              /\ unit.result = parse_html(Slice(unit.arg, 0, unit.i) \o closing_tags(unit.stack))

\* C12: parse_html returns on every input, its position moving strictly
\* forward at every iteration, and the elements still open where the scan
\* ends are in the returned tree as if they were closed there.
ParseHtmlReturns ==
    /\ (unit.fn = "parse_html") ~> Parsed
    /\ [][ParseAdvances]_vars
    /\ []ParsedAsIfClosed

\* parse_html has returned at the end of an input with two elements open
ReturnedWithOpenElements == Parsed /\ Len(unit.stack) = 3 /\ unit.i = Len(unit.arg)

\* the content of the tag that starts at i
tag_content_at(html, i) == strip(Slice(html, i + 1, find(html, ">", i)))

\* the next iteration reads a closing tag
AtClosingTag ==
    ParseContinues /\ At(unit.arg, unit.i) = "<"
                   /\ startswith(tag_content_at(unit.arg, unit.i), "/")

\* the name of that closing tag
closing_name == lower(strip(From(tag_content_at(unit.arg, unit.i), 1)))

\* no open element has the name of that closing tag
ClosesNothingOpen ==
    AtClosingTag /\ \A k \in 2..Len(unit.stack) : unit.stack[k].tag # closing_name

\* C13: a closing tag whose name is that of no open element leaves the stack
\* of open elements as it was.
UnmatchedCloseIgnored ==
    [][ClosesNothingOpen => unit'.stack = unit.stack]_vars

\* lines 347-352: the name of an opening tag
opening_name(tag_content) ==
    IF find(tag_content, " ", 0) = -1 THEN lower(rstrip_char(tag_content, "/"))
    ELSE lower(Slice(tag_content, 0, find(tag_content, " ", 0)))

\* the next iteration reads the tag of a void element or a self-closing tag
AtLeafTag ==
    /\ ParseContinues /\ At(unit.arg, unit.i) = "<"
    /\ ~startswith(tag_content_at(unit.arg, unit.i), "!")
    /\ ~startswith(tag_content_at(unit.arg, unit.i), "/")
    /\ \/ opening_name(tag_content_at(unit.arg, unit.i)) \in void_tags
       \/ endswith(tag_content_at(unit.arg, unit.i), "/")

\* parent has one child more than before, an element without children or text
LeafAdded(before, parent) ==
    /\ parent.tag = before.tag /\ parent.attrs = before.attrs /\ parent.text = before.text
    /\ Len(parent.children) = Len(before.children) + 1
    /\ SubSeq(parent.children, 1, Len(before.children)) = before.children
    /\ parent.children[Len(parent.children)].children = <<>>
    /\ parent.children[Len(parent.children)].text = ""

\* such a tag adds a leaf to the innermost open element and opens nothing
LeafTagOpensNothing ==
    AtLeafTag =>
        /\ Len(unit'.stack) = Len(unit.stack)
        /\ \A k \in 1..(Len(unit.stack) - 1) : unit'.stack[k] = unit.stack[k]
        /\ LeafAdded(unit.stack[Len(unit.stack)], unit'.stack[Len(unit.stack)])

\* no void element is open
NoVoidOpen == \A k \in 1..Len(unit.stack) : unit.stack[k].tag \notin void_tags

RECURSIVE VoidLeaves(_)
\* in the tree of elem every void element is without children and text
VoidLeaves(elem) ==
    /\ elem.tag \in void_tags => elem.children = <<>> /\ elem.text = ""
    /\ \A k \in 1..Len(elem.children) : VoidLeaves(elem.children[k])

\* C14: void elements and elements of self-closing tags are added as leaves
\* and are never open, so they have neither children nor text in the tree
\* returned.
VoidAndSelfClosingAreLeaves ==
    /\ [][LeafTagOpensNothing]_vars
    /\ []NoVoidOpen
    /\ [](Parsed => VoidLeaves(unit.result))

\* text has followed a void element and a self-closing tag
TextAfterLeaves ==
    /\ Parsed /\ Len(unit.result.children) = 2
    /\ unit.result.children[1].tag = "br" /\ unit.result.children[2].tag = "div"
    /\ unit.result.text # ""

LaidOut == unit.fn \in {"layout_text", "layout_inline"} /\ unit.at = "returned"

LeftEdge == MARGIN + unit.arg.indent

RightEdge == MARGIN + unit.arg.W

\* a block starts at the left edge or ends within the right edge
WithinEdges(b) == b.x = LeftEdge \/ b.x + b.w <= RightEdge

\* some word of the block is wider than the content width
HasWideWord(b) ==
    \E k \in 1..Len(split_ws(b.text)) :
        measure_text(split_ws(b.text)[k], b.font_size) > unit.arg.W

\* the block is one word and no other block is on its line
AloneOnLine(blocks, k) ==
    /\ Len(split_ws(blocks[k].text)) = 1
    /\ \A j \in 1..Len(blocks) : j # k => blocks[j].y # blocks[k].y

RECURSIVE words_in(_)
\* the words of an element in the order process meets them
words_in(el) ==
    LET RECURSIVE Rest(_)
        Rest(k) == IF k > Len(el.children) THEN <<>>
                   ELSE words_in(el.children[k]) \o Rest(k + 1)
    IN  split_ws(el.text) \o Rest(1)

RECURSIVE words_placed(_)
\* the words of the blocks, in the order of the blocks
words_placed(blocks) ==
    IF blocks = <<>> THEN <<>>
    ELSE words_placed(SubSeq(blocks, 1, Len(blocks) - 1)) \o split_ws(blocks[Len(blocks)].text)

\* the words given to the layout function
words_given == IF unit.fn = "layout_text" THEN split_ws(unit.arg.text) ELSE words_in(unit.arg.elem)

\* C15: word-wrapped layout returns with every word placed once, in order;
\* each block starts at the left edge of its line or ends within the right
\* edge, and a word wider than the content width is alone on its line.
WordsWrapWithinEdges ==
    LaidOut =>
        /\ \A k \in 1..Len(unit.result.blocks) :
              /\ WithinEdges(unit.result.blocks[k])
              /\ HasWideWord(unit.result.blocks[k]) => AloneOnLine(unit.result.blocks, k)
        /\ words_placed(unit.result.blocks) = words_given

\* a word wider than the content width has been placed between two others in
\* a paragraph
WideWordBetweenWords ==
    /\ LaidOut /\ unit.fn = "layout_inline" /\ Len(unit.result.blocks) = 3
    /\ HasWideWord(unit.result.blocks[2])
    /\ ~HasWideWord(unit.result.blocks[1]) /\ ~HasWideWord(unit.result.blocks[3])

\* the step is a call of back() with nothing to go back to, or of forward()
\* with nothing to go forward to
CallsWithEmptyStack ==
    /\ pc = "idle"
    /\ \/ entry'.call = "back" /\ Len(browser.history) = 0
       \/ entry'.call = "forward" /\ Len(browser.forward_history) = 0

\* C16: back() with an empty back stack and forward() with an empty forward
\* stack change nothing of the controller (URL, stacks, scroll offset, address
\* buffer, edit flag, document) and fetch nothing.
EmptyStackCallsAreNoOps ==
    [][CallsWithEmptyStack => browser' = browser /\ pc' = "idle" /\ net' = NoNet]_vars

\* back() was called with an empty back stack while the address was edited
BackWithNothingBehind ==
    /\ Returned /\ entry.call = "back" /\ ~entry.acted
    /\ browser.history = <<>> /\ browser.url # "" /\ browser.editing_url

\* C17: when refresh() has returned, the back stack and the forward stack
\* are those of before the call and the current URL is the refreshed one.
RefreshKeepsHistory ==
    Returned /\ entry.call = "refresh" /\ entry.acted =>
        /\ browser.history = entry.history
        /\ browser.forward_history = entry.forward_history
        /\ browser.url = entry.url

\* C18: the path parse_url returns is not empty and starts with "/".
PathStartsWithSlash ==
    unit.fn = "parse_url" /\ unit.at = "returned" =>
        unit.result.path # "" /\ startswith(unit.result.path, "/")

\* the layout of the retained markup at content width W
layout_of_current(W) == layout_document(parse_html(browser.current_html), W)

\* blocks, links and content height are those of one layout d
Shows(d) ==
    /\ browser.blocks = d.blocks
    /\ browser.links = d.links
    /\ browser.content_height = d.content_height

\* C19: whenever a navigate or a resize has completed, the block list, the
\* link regions and the content height are together the layout of
\* current_html at the current content width.
LayoutIsOfCurrentMarkup == Returned => Shows(layout_of_current(browser.content_w))

\* a document is shown in a window made narrower, where its layout is not
\* the one of the first width
RelaidOutNarrower ==
    /\ Returned /\ browser.content_w < WIN_W - MARGIN * 2 - SCROLLBAR_W
    /\ browser.current_html # ""
    /\ ~Shows(layout_of_current(WIN_W - MARGIN * 2 - SCROLLBAR_W))

BackForwardMoveOneEntry ==
    /\ Returned /\ entry.call = "back" /\ entry.acted =>
          /\ browser.history = Front(entry.history)
          /\ browser.forward_history = Append(entry.forward_history, entry.url)
    /\ Returned /\ entry.call = "forward" /\ entry.acted =>
          /\ browser.forward_history = Front(entry.forward_history)
          /\ browser.history = Append(entry.history, entry.url)

\* C22: a result with a redirect status carries the trimmed value of the
\* Location header of the response, never its body.
RedirectCarriesLocation ==
    /\ unit.fn = "parse_http_response" /\ unit.at = "returned"
    /\ IsRedirect(unit.result.status)
    => unit.arg.location # None /\ unit.result.body = unit.arg.location[1]

\* where a click may fall: left of the back button, on a link's column,
\* between two buttons, on the address bar, on the scrollbar's column
ClickXs == {2, 12, 22, 70, 635}

\* above the buttons, on them, below them, between toolbar and content, in
\* the content area
ClickYs == {2, 10, 22, 25, 45}

\* (x, y) is in the strip above the content area
InChromeStrip(x, y) == y < browser.content_y

\* (x, y) is on the scrollbar track
OnScrollbarTrack(x, y) == x >= browser.win_w - SCROLLBAR_W /\ y >= browser.content_y

\* C23: a click in the strip above the content area or on the scrollbar
\* track activates no link.
ChromeClickActivatesNoLink ==
    Returned =>
        \A x \in ClickXs, y \in ClickYs :
            InChromeStrip(x, y) \/ OnScrollbarTrack(x, y) =>
                click_target(browser, x, y) # "link"

\* the reference of the text given, as written
reference_given == "&" \o unit.arg.body \o ";"

\* C24: a reference that names a character and whose body is at most 11
\* characters long is decoded; a longer one, or one that names none, is left
\* as written.
ReferencesUpTo11Decoded ==
    unit.fn = "decode_entities" /\ unit.at = "returned" =>
        unit.result = unit.arg.pre
                      \o (IF unit.arg.value # None /\ Len(unit.arg.body) <= 11
                          THEN unit.arg.value[1] ELSE reference_given)
                      \o unit.arg.post

\* a list has been laid out
ListLaidOut ==
    /\ unit.fn = "layout_element" /\ unit.at = "returned"
    /\ unit.arg.elem.tag \in {"ul", "ol"}

\* the y of the bullets of the list itself (line 472: x = MARGIN + indent + 20),
\* in order
bullet_ys(blocks) ==
    LET RECURSIVE Upto(_)
        Upto(k) == IF k = 0 THEN <<>>
                   ELSE Upto(k - 1) \o (IF blocks[k].x = MARGIN + 20 THEN <<blocks[k].y>>
                                        ELSE <<>>)
    IN  Upto(Len(blocks))

\* each y is at least a line below the one before it, and the last one at least
\* a line above the cursor the list leaves (which is 4 below its last item)
ItemsALineApart(ys, y_end) ==
    /\ \A j \in 1..(Len(ys) - 1) : ys[j + 1] >= ys[j] + line_height_of(16)
    /\ Len(ys) > 0 => y_end - 4 >= ys[Len(ys)] + line_height_of(16)

\* C25: every item of a list moves the cursor at least one line-height down
\* from the y of its bullet, whatever the item holds.
ItemAdvancesALine ==
    ListLaidOut => ItemsALineApart(bullet_ys(unit.result.blocks), unit.result.y)

DocumentLaidOut == unit.fn = "layout_document" /\ unit.at = "returned"

\* the bottom edges of the blocks
bottoms(blocks) == {blocks[k].y + blocks[k].h : k \in 1..Len(blocks)}

\* the largest number of a non-empty set
highest(S) == CHOOSE m \in S : \A n \in S : n <= m

\* the y layout_element returned to layout_document (line 776)
cursor_of(root, W) ==
    layout_element(IF find_element(root, "body") # None THEN find_element(root, "body")[1]
                   ELSE root,
                   Lay(<<>>, <<>>, MARGIN), 0, 16, {}, None, W).y

\* C26 as stated: the content height is twice the sum of the largest bottom
\* edge of the blocks and the margin.
HeightFromBlocksOnly ==
    DocumentLaidOut /\ unit.result.blocks # <<>> =>
        unit.result.content_height = 2 * (highest(bottoms(unit.result.blocks)) + MARGIN)

\* C26, amended: the content height is twice the sum of the margin and the
\* larger of the cursor the layout ended at and the largest bottom edge of the
\* blocks.
HeightFromCursorAndBlocks ==
    DocumentLaidOut =>
        unit.result.content_height =
            2 * (highest(bottoms(unit.result.blocks)
                         \cup {cursor_of(unit.arg.root, unit.arg.W)}) + MARGIN)

\* a document has been laid out of which a block ends below the cursor
BlockBelowCursor ==
    /\ DocumentLaidOut /\ unit.result.blocks # <<>>
    /\ highest(bottoms(unit.result.blocks)) > cursor_of(unit.arg.root, unit.arg.W)

\* C27: navigate does not raise while it resolves its URL against the
\* current one.
NavigateResolves == unit.fn = "navigate" => unit.at # "raised"

\* in edit mode the cursor is within the address buffer
CursorWithinBuffer ==
    browser.editing_url =>
        0 <= browser.cursor_pos /\ browser.cursor_pos <= Len(browser.address_text)

\* a step that changes the buffer in edit mode moves the cursor by as much as
\* it changes the length of the buffer
EditMovesCursorWithLength ==
    browser.editing_url /\ browser'.editing_url
    /\ browser'.address_text # browser.address_text
    => Len(browser'.address_text) - Len(browser.address_text)
           = browser'.cursor_pos - browser.cursor_pos

\* C28: whenever the edit mode is on, 0 <= cursor_pos <= len(address_text),
\* and every insert or delete changes the length of the buffer and the cursor
\* by the same amount.
AddressCursorWithinBuffer ==
    []CursorWithinBuffer /\ [][EditMovesCursorWithLength]_vars

\* a character of the address has been deleted in edit mode
AddressShortened ==
    /\ browser.editing_url /\ edits > 0
    /\ Len(browser.address_text) < Len(browser.url)

\* C29: no scrollbar computation divides by zero: behind the max_scroll > 0
\* guard content_height is not zero, and the track range divides only where
\* it is positive.
ScrollbarNeverDividesByZero ==
    0 \notin draw_scrollbar_divisors(browser) \cup handle_mouse_move_divisors(browser)

\* the scrollbar is dragged over a document that is scrolled
DraggingScrolled ==
    /\ Returned /\ browser.scrollbar_dragging
    /\ browser.max_scroll > 0 /\ browser.scroll_y > 0
    /\ handle_mouse_move_divisors(browser) # {browser.content_height}

====
